---- MODULE Spec2Model ----
(***************************************************************************)
(* Verification model of the orchestrator core:                            *)
(*   - orchestrator/core/task.py        (Task, RetryConfig, RetryState,    *)
(*                                        TaskQueue)                        *)
(*   - orchestrator/workflow/engine.py  (WorkflowEngine.execute)           *)
(*   - orchestrator/workflow/definition.py (Workflow.get_ready_steps)      *)
(*                                                                         *)
(* Abstractions: datetimes are integers read from the clock `now`; floats  *)
(* (delays) are integers; strings that are searched (error messages,       *)
(* retry_on_errors) are sequences of one-character strings; the purely     *)
(* informational timestamps (updated_at, started_at, completed_at,         *)
(* last_attempt_at) and the RetryState.errors history are not stored.      *)
(***************************************************************************)
EXTENDS Integers, Sequences, FiniteSets, TLC

\* ------------------------------------------------------------------ bounds
MaxTime == 2
MaxTotalAttempts == 3
MaxSchedAttempts == 1
MaxSchedTime == 1
MaxExecutions == 2
MaxEvaluators == 2
MaxRuns == 2
MaxAttemptArg == 4
MaxTurnsLen == 4
MaxSends == 3

\* ------------------------------------------------------- program constants
DefaultMaxParallelSteps == 5
DefaultMaxIterations == 3
DefaultMinPassingScore == 80
DefaultMaxTurns == 50

\* --------------------------------------------------------------- variables
VARIABLES
    _tasks,            \* TaskQueue._tasks: dict in insertion order, as a sequence of Task records
    _completed_tasks,  \* TaskQueue._completed_tasks: set of task ids
    now,               \* the wall clock read by datetime.now()
    ret,               \* what the last queue operation returned
    steps,             \* Workflow.steps: the WorkflowStep records, in order
    wf_status,         \* Workflow.status
    _agents,           \* WorkflowEngine._agents: names of the registered agents
    _max_parallel_steps,   \* WorkflowEngine._max_parallel_steps
    _running_workflows,    \* WorkflowEngine._running_workflows: ids of the workflows in it
    _workflow_results,     \* WorkflowEngine._workflow_results[workflow.id], NoWfResult when absent
    pc,                \* where the execute coroutine stands
    completed_steps,   \* execute's local set completed_steps
    step_results,      \* execute's local dict step_results: step id -> entry
    outputs,           \* execute's local dict outputs: the step names it holds
    ready_steps,       \* execute's local list ready_steps, as positions in steps
    coros,             \* the _execute_step coroutines handed to asyncio.gather
    executions,        \* number of execute calls made on the workflow
    wf_ret,            \* what the last cancel_workflow or pause_workflow call returned
    loop_task,         \* the Task handed to CorrectionLoop.run: status and correction counter
    _evaluators,       \* CorrectionLoop._evaluators: how many evaluators the list holds
    _max_iterations,   \* CorrectionLoop._max_iterations
    _min_passing_score,    \* CorrectionLoop._min_passing_score, in hundredths
    run_pc,            \* where the run coroutine stands
    iteration_num,     \* run's loop variable iteration_num
    iterations,        \* run's local list iterations
    combined_result,   \* run's local combined_result
    loop_result,       \* the CorrectionLoopResult run returned
    runs,              \* number of run calls made on the task
    _correction_handlers,  \* CorrectionLoop._correction_handlers: the categories with a handler
    initial_output,    \* run's argument initial_output
    current_output,    \* run's local current_output
    handler_calls,     \* number of calls made to correction handlers
    evaluation_results,    \* the list handed to _combine_results
    combined,          \* what _combine_results returned for it
    call_config,       \* the RetryConfig a policy method is called on
    call_error,        \* the error_message argument of should_retry
    call_attempt,      \* the attempt argument of calculate_delay
    call_ret,          \* what the policy method returned
    orch_agents,       \* Orchestrator._agents: dict in insertion order, as a sequence of agents
    _capability_index, \* Orchestrator._capability_index: capability -> list of agent names
    enable_correction_loops,   \* OrchestratorConfig.enable_correction_loops
    _is_running,       \* Orchestrator._is_running
    procs,             \* the run_task_loop and process_task coroutines
    handle_log,        \* the handle_task invocations made: (coroutine, agent, task id)
    stop_called,       \* stop() has been called
    _conversations,    \* ConversationManager._conversations: id -> Conversation
    conversation,      \* a Conversation built by a caller with the constructor
    send_call,         \* the send_message call
    broadcast_call,    \* the broadcast_message call
    process_calls,     \* process_message invocations received, per agent name
    workflow,          \* a Workflow built by a caller
    data,              \* what workflow.to_dict() returned
    restored,          \* what Workflow.from_dict(data) returned
    template,          \* a TaskTemplate
    create_args,       \* the (title, variables) arguments of create_task
    created            \* the Task create_task returned

qvars == <<_tasks, _completed_tasks, now, ret>>
wfvars == <<steps, wf_status, _agents, _max_parallel_steps, _running_workflows,
            _workflow_results, pc, completed_steps, step_results, outputs,
            ready_steps, coros, executions, wf_ret>>
clvars == <<loop_task, _evaluators, _max_iterations, _min_passing_score, run_pc,
            iteration_num, iterations, combined_result, loop_result, runs,
            _correction_handlers, initial_output, current_output, handler_calls>>
cbvars == <<evaluation_results, combined>>
pvars == <<call_config, call_error, call_attempt, call_ret>>
ovars == <<orch_agents, _capability_index, enable_correction_loops, _is_running,
           procs, handle_log, stop_called>>
cvars == <<_conversations, conversation, send_call, broadcast_call, process_calls>>
rtvars == <<workflow, data, restored>>
tvars == <<template, create_args, created>>
auxvars == <<rtvars, tvars>>
restvars == <<pvars, ovars, cvars, auxvars>>

\* ------------------------------------------------------------------ strings
\* str.lower() on one character
LowerChar(c) ==
    CASE c = "T" -> "t"
      [] c = "O" -> "o"
      [] c = "X" -> "x"
      [] OTHER -> c

\* str.lower()
Lower(s) == [i \in 1..Len(s) |-> LowerChar(s[i])]

\* Python's `sub in s` on strings
Contains(s, sub) ==
    \E k \in 0..(Len(s) - Len(sub)) :
        \A j \in 1..Len(sub) : s[k + j] = sub[j]

\* error_message: str | None
NoneErr == [isNone |-> TRUE, text |-> <<>>]
Msg(s) == [isNone |-> FALSE, text |-> s]
ErrTimeout == Msg(<<"x", "T", "O">>)      \* "Request TIMEOUT"-like text
ErrBad == Msg(<<"x">>)                    \* "Bad credentials"-like text
SchedErrors == {NoneErr}
RetryErrors == {ErrTimeout, ErrBad}

\* ------------------------------------------------------------- enumerations
TaskStatus == {"pending", "queued", "in_progress", "under_review", "needs_correction",
               "retrying", "completed", "failed", "cancelled"}
TaskPriority == {"low", "medium", "high", "critical"}
RetryStrategy == {"none", "immediate", "linear", "exponential"}

NoTime == -1          \* a datetime field holding None
NoResult == [isNone |-> TRUE, success |-> FALSE, error_message |-> NoneErr, retry_attempt |-> 0]

Min(a, b) == IF a <= b THEN a ELSE b

RECURSIVE Pow2(_)
Pow2(n) == IF n <= 0 THEN 1 ELSE 2 * Pow2(n - 1)

\* ------------------------------------------------------------- RetryConfig
RetryConfig(strategy, max_retries, base, maxd, on_errors) ==
    [strategy |-> strategy, max_retries |-> max_retries,
     base_delay_seconds |-> base, max_delay_seconds |-> maxd,
     retry_on_errors |-> on_errors]

\* calculate_delay with the exponent off by one: base * 2 ** attempt
calculate_delay_exponent(config, attempt) ==
    IF config.strategy = "none" THEN 0
    ELSE IF config.strategy = "immediate" THEN 0
    ELSE IF config.strategy = "linear"
         THEN Min(config.base_delay_seconds * attempt, config.max_delay_seconds)
         ELSE Min(config.base_delay_seconds * Pow2(attempt), config.max_delay_seconds)

\* calculate_delay returning the delay without the clamp to max_delay_seconds
calculate_delay_unclamped(config, attempt) ==
    IF config.strategy = "none" THEN 0
    ELSE IF config.strategy = "immediate" THEN 0
    ELSE IF config.strategy = "linear"
         THEN config.base_delay_seconds * attempt
         ELSE config.base_delay_seconds * Pow2(attempt - 1)

\* RetryConfig.calculate_delay
calculate_delay(config, attempt) ==
    IF config.strategy = "none" THEN 0
    ELSE IF config.strategy = "immediate" THEN 0
    ELSE IF config.strategy = "linear"
         THEN Min(config.base_delay_seconds * attempt, config.max_delay_seconds)
         ELSE Min(config.base_delay_seconds * Pow2(attempt - 1), config.max_delay_seconds)

\* RetryConfig.should_retry
should_retry(config, error_message) ==
    IF config.strategy = "none" THEN FALSE
    ELSE IF Len(config.retry_on_errors) = 0 THEN TRUE
    ELSE IF error_message.isNone THEN TRUE
    ELSE \E i \in 1..Len(config.retry_on_errors) :
            Contains(Lower(error_message.text), Lower(config.retry_on_errors[i]))

\* -------------------------------------------------------------- RetryState
\* RetryState.record_attempt
record_attempt(state, error_message) ==
    [state EXCEPT !.attempt = @ + 1, !.last_error = error_message]

\* can_retry comparing with <= instead of <
can_retry_offbyone(state, config) ==
    state.attempt <= config.max_retries /\ should_retry(config, state.last_error)

\* RetryState.can_retry
can_retry(state, config) ==
    state.attempt < config.max_retries /\ should_retry(config, state.last_error)

\* -------------------------------------------------------------------- Task
\* Task(...) as constructed by a submitter: status pending, fresh retry state
Task(id, priority, dependencies, created_at, config) ==
    [id |-> id, priority |-> priority, dependencies |-> dependencies,
     created_at |-> created_at, status |-> "pending",
     retry_config |-> config,
     retry_state |-> [attempt |-> 0, last_error |-> NoneErr, next_retry_at |-> NoTime],
     result |-> NoResult]

\* can_start ignoring the dependencies
can_start_nodeps(task, completed_tasks) == TRUE

\* Task.can_start
can_start(task, completed_tasks) ==
    \A dep \in task.dependencies : dep \in completed_tasks

\* Task.is_terminal
is_terminal(task) == task.status \in {"completed", "failed", "cancelled"}

\* Task.record_failure
record_failure(task, error_message, clock) ==
    LET rs == record_attempt(task.retry_state, error_message) IN
    IF can_retry(rs, task.retry_config)
    THEN [task EXCEPT
            !.retry_state = [rs EXCEPT !.next_retry_at =
                                clock + calculate_delay(task.retry_config, rs.attempt)],
            !.status = "retrying"]
    ELSE [task EXCEPT
            !.retry_state = rs,
            !.status = "failed",
            !.result = [isNone |-> FALSE, success |-> FALSE,
                        error_message |-> error_message,
                        retry_attempt |-> rs.attempt]]

\* reset_for_retry leaving next_retry_at as it was
reset_for_retry_keeping_time(task) ==
    IF task.status = "retrying"
    THEN [task EXCEPT !.status = "pending"]
    ELSE task

\* Task.reset_for_retry
reset_for_retry(task) ==
    IF task.status = "retrying"
    THEN [task EXCEPT !.status = "pending", !.retry_state.next_retry_at = NoTime]
    ELSE task

\* Task.update_status (status only; the timestamps are not modelled)
update_status(task, new_status) == [task EXCEPT !.status = new_status]

\* --------------------------------------------------------------- TaskQueue
TaskIds == {"A", "B", "C"}
NoId == "none"

\* Retry configurations handed to new tasks
ExpConfig == RetryConfig("exponential", 3, 1, 10, <<>>)
LinearConfig == RetryConfig("linear", 2, 1, 1, << <<"T", "o">> >>)
NoneConfig == RetryConfig("none", 3, 1, 60, <<>>)

\* The tasks a submitter may construct and hand to add_task
TaskA == Task("A", "low", {}, 0, ExpConfig)
TaskB == Task("B", "critical", {"A"}, 1, LinearConfig)
TaskC == Task("C", "high", {}, 2, ExpConfig)
TaskA2 == Task("A", "high", {}, 3, NoneConfig)
SchedTasks == {TaskA, TaskB, TaskC, TaskA2}
RetryTasks == {TaskA, TaskB, TaskA2}
RetryIds == {"A", "B"}

\* position of a task id in the dict, 0 when absent
IndexOf(tasks, id) ==
    IF \E i \in 1..Len(tasks) : tasks[i].id = id
    THEN CHOOSE i \in 1..Len(tasks) : tasks[i].id = id
    ELSE 0

\* the sort key's priority_order table in get_next_task
priority_order(p) ==
    CASE p = "critical" -> 0
      [] p = "high" -> 1
      [] p = "medium" -> 2
      [] p = "low" -> 3

\* the sort key without created_at
KeyLess_priority_only(a, b) ==
    priority_order(a.priority) < priority_order(b.priority)

\* key a < key b for the tuple (priority_order[t.priority], t.created_at)
KeyLess(a, b) ==
    \/ priority_order(a.priority) < priority_order(b.priority)
    \/ /\ priority_order(a.priority) = priority_order(b.priority)
       /\ a.created_at < b.created_at

\* the ready_tasks list comprehension of get_next_task, as dict positions
ready_tasks(tasks, completed) ==
    { i \in 1..Len(tasks) :
        tasks[i].status = "pending" /\ can_start(tasks[i], completed) }

\* TaskQueue.get_next_task: first element of the stable sort of ready_tasks;
\* returns the dict position, 0 for None
get_next_task(tasks, completed) ==
    LET ready == ready_tasks(tasks, completed) IN
    IF ready = {} THEN 0
    ELSE CHOOSE i \in ready :
            \A j \in ready \ {i} :
                \/ KeyLess(tasks[i], tasks[j])
                \/ (~KeyLess(tasks[j], tasks[i]) /\ i < j)

\* get_tasks_ready_for_retry without the comparison with the clock
get_tasks_ready_for_retry_nodelay(tasks, clock) ==
    { i \in 1..Len(tasks) :
        /\ tasks[i].status = "retrying"
        /\ tasks[i].retry_state.next_retry_at # NoTime }

\* TaskQueue.get_tasks_ready_for_retry, as the set of dict positions
get_tasks_ready_for_retry(tasks, clock) ==
    { i \in 1..Len(tasks) :
        /\ tasks[i].status = "retrying"
        /\ tasks[i].retry_state.next_retry_at # NoTime
        /\ tasks[i].retry_state.next_retry_at <= clock }

\* ids of the tasks at the given positions, in dict order
RECURSIVE IdsInOrder(_, _, _)
IdsInOrder(tasks, positions, i) ==
    IF i > Len(tasks) THEN <<>>
    ELSE (IF i \in positions THEN <<tasks[i].id>> ELSE <<>>)
         \o IdsInOrder(tasks, positions, i + 1)

\* sum of the retry attempts recorded in the queue
RECURSIVE TotalAttempts(_, _)
TotalAttempts(tasks, i) ==
    IF i = 0 THEN 0 ELSE tasks[i].retry_state.attempt + TotalAttempts(tasks, i - 1)

\* what the last operation returned: the task of get_next_task, the flag of
\* mark_failed, the id list of process_retries; Void after an operation that
\* returns nothing
Ret(op, id, ok, ids) == [op |-> op, id |-> id, ok |-> ok, ids |-> ids]
Void == Ret("void", NoId, FALSE, <<>>)

\* TaskQueue.__init__
QueueInit ==
    /\ _tasks = <<>>
    /\ _completed_tasks = {}
    /\ now = 0
    /\ ret = Void

\* TaskQueue.add_task: self._tasks[task.id] = task
AddTask(task) ==
    /\ _tasks' = IF IndexOf(_tasks, task.id) = 0
                 THEN Append(_tasks, task)
                 ELSE [_tasks EXCEPT ![IndexOf(_tasks, task.id)] = task]
    /\ ret' = Void
    /\ UNCHANGED <<_completed_tasks, now>>
    /\ UNCHANGED <<wfvars, clvars, cbvars, restvars>>

\* TaskQueue.get_next_task
GetNextTask ==
    LET i == get_next_task(_tasks, _completed_tasks) IN
    /\ ret' = IF i = 0 THEN Ret("get_next_task", NoId, FALSE, <<>>)
              ELSE Ret("get_next_task", _tasks[i].id, TRUE, <<>>)
    /\ UNCHANGED <<_tasks, _completed_tasks, now>>
    /\ UNCHANGED <<wfvars, clvars, cbvars, restvars>>

\* TaskQueue.mark_completed
MarkCompleted(id) ==
    LET i == IndexOf(_tasks, id) IN
    /\ IF i # 0
       THEN /\ _tasks' = [_tasks EXCEPT ![i] = update_status(@, "completed")]
            /\ _completed_tasks' = _completed_tasks \cup {id}
       ELSE UNCHANGED <<_tasks, _completed_tasks>>
    /\ ret' = Void
    /\ UNCHANGED now
    /\ UNCHANGED <<wfvars, clvars, cbvars, restvars>>

\* TaskQueue.mark_failed; cap bounds the attempts recorded in the queue
MarkFailed(id, error_message, cap) ==
    LET i == IndexOf(_tasks, id) IN
    /\ TotalAttempts(_tasks, Len(_tasks)) < cap
    /\ IF i = 0
       THEN /\ ret' = Ret("mark_failed", NoId, FALSE, <<>>)
            /\ UNCHANGED _tasks
       ELSE LET t == record_failure(_tasks[i], error_message, now) IN
            /\ _tasks' = [_tasks EXCEPT ![i] = t]
            /\ ret' = Ret("mark_failed", NoId, t.status = "retrying", <<>>)
    /\ UNCHANGED <<_completed_tasks, now>>
    /\ UNCHANGED <<wfvars, clvars, cbvars, restvars>>

\* TaskQueue.process_retries
ProcessRetries ==
    LET ready == get_tasks_ready_for_retry(_tasks, now) IN
    /\ _tasks' = [i \in 1..Len(_tasks) |->
                    IF i \in ready THEN reset_for_retry(_tasks[i]) ELSE _tasks[i]]
    /\ ret' = Ret("process_retries", NoId, FALSE, IdsInOrder(_tasks, ready, 1))
    /\ UNCHANGED <<_completed_tasks, now>>
    /\ UNCHANGED <<wfvars, clvars, cbvars, restvars>>

\* Task.update_status called directly on a queued task: the administrative cancel
DirectStatuses == {"cancelled"}

UpdateStatus(id, new_status) ==
    LET i == IndexOf(_tasks, id) IN
    /\ i # 0
    /\ _tasks' = [_tasks EXCEPT ![i] = update_status(@, new_status)]
    /\ ret' = Void
    /\ UNCHANGED <<_completed_tasks, now>>
    /\ UNCHANGED <<wfvars, clvars, cbvars, restvars>>

\* the clock advances, up to cap
Tick(cap) ==
    /\ now < cap
    /\ now' = now + 1
    /\ ret' = Void
    /\ UNCHANGED <<_tasks, _completed_tasks>>
    /\ UNCHANGED <<wfvars, clvars, cbvars, restvars>>

\* --------------------------------------------------------- Workflow, steps
WorkflowStatus == {"pending", "running", "paused", "completed", "failed", "cancelled"}
WorkflowStepType == {"task", "agent_action", "conversation", "condition", "parallel",
                     "loop", "wait", "approval"}
NoAgent == "none"

\* WorkflowStep(...) as constructed by a workflow author
WorkflowStep(id, step_type, agent, dependencies) ==
    [id |-> id, name |-> id, step_type |-> step_type, agent |-> agent,
     dependencies |-> dependencies, status |-> "pending",
     result |-> "none", error |-> "none"]

\* WorkflowTemplates.feature_development
feature_development ==
    << WorkflowStep("planning", "task", "PMAgent", {}),
       WorkflowStep("architecture", "task", "ArchitectAgent", {"planning"}),
       WorkflowStep("development", "task", "DevAgent", {"architecture"}),
       WorkflowStep("testing", "task", "QAAgent", {"development"}),
       WorkflowStep("security_review", "task", "SecurityAgent", {"development"}),
       WorkflowStep("documentation", "task", "DocsAgent", {"testing", "security_review"}) >>

\* a workflow mixing the step types, one agent_action naming an agent nobody registered
mixed_workflow ==
    << WorkflowStep("wait", "wait", NoAgent, {}),
       WorkflowStep("action", "agent_action", "GhostAgent", {"wait"}),
       WorkflowStep("build", "task", "DevAgent", {"wait"}),
       WorkflowStep("check", "task", "QAAgent", {}),
       WorkflowStep("gate", "condition", NoAgent, {"action", "build"}) >>

\* a workflow whose dependencies contain a cycle and name a step that does not exist
broken_workflow ==
    << WorkflowStep("first", "task", "DevAgent", {}),
       WorkflowStep("orphan", "approval", NoAgent, {"missing"}),
       WorkflowStep("ping", "conversation", NoAgent, {"pong"}),
       WorkflowStep("pong", "parallel", NoAgent, {"ping", "first"}) >>

Workflows == {feature_development, mixed_workflow, broken_workflow}

FeatureAgents == {"PMAgent", "ArchitectAgent", "DevAgent", "QAAgent", "SecurityAgent",
                  "DocsAgent"}
AgentChoices == {{}, FeatureAgents, {"DevAgent"}}
ParallelChoices == {0, 1, 2, DefaultMaxParallelSteps}

\* get_ready_steps with any() in place of all()
RECURSIVE get_ready_steps_any(_, _, _)
get_ready_steps_any(ss, completed, i) ==
    IF i > Len(ss) THEN <<>>
    ELSE (IF /\ ss[i].status = "pending"
             /\ \/ ss[i].dependencies = {}
                \/ \E dep \in ss[i].dependencies : dep \in completed
          THEN <<i>> ELSE <<>>)
         \o get_ready_steps_any(ss, completed, i + 1)

\* get_ready_steps without the test on the step's status
RECURSIVE get_ready_steps_any_status(_, _, _)
get_ready_steps_any_status(ss, completed, i) ==
    IF i > Len(ss) THEN <<>>
    ELSE (IF \A dep \in ss[i].dependencies : dep \in completed
          THEN <<i>> ELSE <<>>)
         \o get_ready_steps_any_status(ss, completed, i + 1)

\* Workflow.get_ready_steps, from position i on, as positions in steps
RECURSIVE get_ready_steps(_, _, _)
get_ready_steps(ss, completed, i) ==
    IF i > Len(ss) THEN <<>>
    ELSE (IF /\ ss[i].status = "pending"
             /\ \A dep \in ss[i].dependencies : dep \in completed
          THEN <<i>> ELSE <<>>)
         \o get_ready_steps(ss, completed, i + 1)

\* names of the steps with the given status, in workflow order
RECURSIVE NamesWithStatus(_, _, _)
NamesWithStatus(ss, status, i) ==
    IF i > Len(ss) THEN <<>>
    ELSE (IF ss[i].status = status THEN <<ss[i].name>> ELSE <<>>)
         \o NamesWithStatus(ss, status, i + 1)

\* --------------------------------------------------------- WorkflowEngine
NoWfResult == [isNone |-> TRUE, success |-> FALSE, status |-> "pending",
               error_kind |-> "none", error_names |-> <<>>,
               step_results |-> <<>>, outputs |-> {}]

\* what a step handler can do when awaited: return a mapping with success
\* true ("ok") or false ("nok"), or raise ("raised")
\* _execute_step's dispatch on step_type
StepOutcomes(step, agents) ==
    IF step.step_type = "task"
    THEN IF step.agent # NoAgent /\ step.agent \in agents
         THEN {"ok", "nok", "raised"}      \* agent.handle_task: any response, or an exception
         ELSE {"ok"}                       \* no agent assigned
    ELSE IF step.step_type = "agent_action"
    THEN IF step.agent # NoAgent /\ step.agent \in agents THEN {"ok"} ELSE {"nok"}
    ELSE {"ok"}                            \* conversation, condition, parallel, wait, others

\* the whole ready list, whatever the limit
Launched_all(ready, max) == ready

\* the slice ready_steps[: self._max_parallel_steps]
Launched(ready, max) == SubSeq(ready, 1, Min(max, Len(ready)))

\* cancel_workflow and pause_workflow return a bool; nothing before the first call
NoWfRet == [op |-> "none", ok |-> FALSE]

\* WorkflowEngine.__init__ and a freshly built workflow
WfInit ==
    /\ steps \in Workflows
    /\ wf_status = "pending"
    /\ _agents \in AgentChoices
    /\ _max_parallel_steps \in ParallelChoices
    /\ _running_workflows = {}
    /\ _workflow_results = NoWfResult
    /\ pc = "idle"
    /\ completed_steps = {}
    /\ step_results = <<>>
    /\ outputs = {}
    /\ ready_steps = <<>>
    /\ coros = <<>>
    /\ executions = 0
    /\ wf_ret = NoWfRet

\* execute, lines 107-123 without the raise: no step is ready, some step is
\* pending and none has failed
workflow_blocked_never(ss) == FALSE

\* execute, lines 107-123: with no step ready, the raise is taken when some
\* step is pending and some step has failed
workflow_blocked(ss) ==
    /\ \E i \in 1..Len(ss) : ss[i].status = "pending"
    /\ \E i \in 1..Len(ss) : ss[i].status = "failed"

\* the final status always completed
final_status_completed(ss, blocked) == "completed"

\* execute, lines 150-167: workflow.status as the loop's exit leaves it
final_status(ss, blocked) ==
    IF blocked \/ NamesWithStatus(ss, "failed", 1) # <<>> THEN "failed" ELSE "completed"

\* execute, lines 87-98: up to the while loop
ExecuteBegin ==
    /\ pc \in {"idle", "done"}
    /\ executions < MaxExecutions
    /\ executions' = executions + 1
    /\ wf_status' = "running"
    /\ _running_workflows' = _running_workflows \cup {"W"}
    /\ completed_steps' = {}
    /\ step_results' = <<>>
    /\ outputs' = {}
    /\ ready_steps' = <<>>
    /\ coros' = <<>>
    /\ pc' = "loop"
    /\ UNCHANGED <<steps, _agents, _max_parallel_steps, _workflow_results>>
    /\ UNCHANGED <<wf_ret, qvars, clvars, cbvars, restvars>>

\* execute, lines 102-129: one pass of the loop head, up to the gather call,
\* the break or the raise
ExecuteLoop ==
    /\ pc = "loop"
    /\ LET ready == get_ready_steps(steps, completed_steps, 1) IN
       /\ ready_steps' = ready
       /\ IF ready = <<>>
          THEN /\ coros' = <<>>
               /\ pc' = IF workflow_blocked(steps) THEN "blocked" ELSE "final"
          ELSE /\ coros' = [k \in 1..Len(Launched(ready, _max_parallel_steps)) |-> "created"]
               /\ pc' = "gather"
    /\ UNCHANGED <<steps, wf_status, _agents, _max_parallel_steps, _running_workflows,
                   _workflow_results, completed_steps, step_results, outputs, executions>>
    /\ UNCHANGED <<wf_ret, qvars, clvars, cbvars, restvars>>

\* _execute_step, lines 205-206: the k-th coroutine starts; gather starts them in order
StepStart(k) ==
    /\ pc = "gather"
    /\ k \in 1..Len(coros)
    /\ coros[k] = "created"
    /\ \A m \in 1..(k - 1) : coros[m] # "created"
    /\ steps' = [steps EXCEPT ![ready_steps[k]].status = "running"]
    /\ coros' = [coros EXCEPT ![k] = "running"]
    /\ UNCHANGED <<wf_status, _agents, _max_parallel_steps, _running_workflows,
                   _workflow_results, pc, completed_steps, step_results, outputs,
                   ready_steps, executions>>
    /\ UNCHANGED <<wf_ret, qvars, clvars, cbvars, restvars>>

\* _execute_step, lines 208-229: the k-th coroutine returns its result or raises
StepFinish(k, outcome) ==
    /\ pc = "gather"
    /\ k \in 1..Len(coros)
    /\ coros[k] = "running"
    /\ outcome \in StepOutcomes(steps[ready_steps[k]], _agents)
    /\ coros' = [coros EXCEPT ![k] = outcome]
    /\ steps' = IF outcome = "raised"
                THEN [steps EXCEPT ![ready_steps[k]].error = "exception"]
                ELSE steps
    /\ UNCHANGED <<wf_status, _agents, _max_parallel_steps, _running_workflows,
                   _workflow_results, pc, completed_steps, step_results, outputs,
                   ready_steps, executions>>
    /\ UNCHANGED <<wf_ret, qvars, clvars, cbvars, restvars>>

\* the step the i-th result is recorded against: ready_steps[i]
ResultOf(pos) ==
    IF \E k \in 1..Len(coros) : ready_steps[k] = pos
    THEN coros[CHOOSE k \in 1..Len(coros) : ready_steps[k] = pos]
    ELSE "none"

\* the exception branch recording the error without failing the step
RecordResult_keeps_running(step, result) ==
    IF result = "raised"
    THEN [step EXCEPT !.error = "exception"]
    ELSE [step EXCEPT !.status = "completed", !.result = result]

\* the result branch failing a step whose mapping carries success=false
RecordResult_failing_unsuccessful(step, result) ==
    IF result \in {"raised", "nok"}
    THEN [step EXCEPT !.status = "failed", !.error = "exception"]
    ELSE [step EXCEPT !.status = "completed", !.result = result]

\* execute, lines 136-143: what one gathered result does to its step
RecordResult(step, result) ==
    IF result = "raised"
    THEN [step EXCEPT !.status = "failed", !.error = "exception"]
    ELSE [step EXCEPT !.status = "completed", !.result = result]

\* the entry of a raising step holding no error
step_result_entry_noerror(result) == [error |-> "none", result |-> "none"]

\* execute, lines 139 and 143: what step_results[step.id] is set to, the
\* mapping {"error": str(result)} for an exception and the result otherwise
step_result_entry(result) ==
    IF result = "raised"
    THEN [error |-> "exception", result |-> "none"]
    ELSE [error |-> "none", result |-> result]

\* execute, lines 131-148: gather returns and the results are processed
ProcessResults ==
    /\ pc = "gather"
    /\ \A k \in 1..Len(coros) : coros[k] \in {"ok", "nok", "raised"}
    /\ steps' = [pos \in 1..Len(steps) |->
                    IF ResultOf(pos) = "none" THEN steps[pos]
                    ELSE RecordResult(steps[pos], ResultOf(pos))]
    /\ step_results' =
          step_results \o [k \in 1..Len(coros) |->
                              [id |-> steps[ready_steps[k]].id,
                               entry |-> step_result_entry(coros[k])]]
    /\ completed_steps' = completed_steps \cup
          { steps[ready_steps[k]].id : k \in { m \in 1..Len(coros) : coros[m] # "raised" } }
    /\ outputs' = outputs \cup
          { steps[ready_steps[k]].name : k \in { m \in 1..Len(coros) : coros[m] # "raised" } }
    /\ coros' = <<>>
    /\ pc' = "loop"
    /\ UNCHANGED <<wf_status, _agents, _max_parallel_steps, _running_workflows,
                   _workflow_results, ready_steps, executions>>
    /\ UNCHANGED <<wf_ret, qvars, clvars, cbvars, restvars>>

\* execute, lines 150-188 after a break, lines 164-188 after the raise: the
\* final status, the result record, and the return
ExecuteReturn ==
    /\ pc \in {"final", "blocked"}
    /\ LET failed == NamesWithStatus(steps, "failed", 1)
           status == final_status(steps, pc = "blocked")
       IN /\ wf_status' = status
          /\ _workflow_results' =
                [isNone |-> FALSE,
                 success |-> (status = "completed"),
                 status |-> status,
                 error_kind |-> IF pc = "blocked" THEN "Workflow blocked: steps failed"
                                ELSE IF failed # <<>> THEN "Steps failed" ELSE "none",
                 error_names |-> failed,
                 step_results |-> step_results,
                 outputs |-> outputs]
    /\ _running_workflows' = _running_workflows \ {"W"}
    /\ pc' = "done"
    /\ UNCHANGED <<steps, _agents, _max_parallel_steps, completed_steps, step_results,
                   outputs, ready_steps, coros, executions>>
    /\ UNCHANGED <<wf_ret, qvars, clvars, cbvars, restvars>>

\* cancel_workflow; a synchronous call, so it runs while execute is suspended in
\* gather or is not running at all
CancelWorkflow ==
    /\ pc \in {"idle", "gather", "done"}
    /\ IF "W" \in _running_workflows
       THEN /\ wf_status' = "cancelled"
            /\ wf_ret' = [op |-> "cancel_workflow", ok |-> TRUE]
       ELSE /\ wf_status' = wf_status
            /\ wf_ret' = [op |-> "cancel_workflow", ok |-> FALSE]
    /\ UNCHANGED <<steps, _agents, _max_parallel_steps, _running_workflows,
                   _workflow_results, pc, completed_steps, step_results, outputs,
                   ready_steps, coros, executions>>
    /\ UNCHANGED <<qvars, clvars, cbvars, restvars>>

\* pause_workflow; scheduled as cancel_workflow is
PauseWorkflow ==
    /\ pc \in {"idle", "gather", "done"}
    /\ IF "W" \in _running_workflows
       THEN /\ wf_status' = "paused"
            /\ wf_ret' = [op |-> "pause_workflow", ok |-> TRUE]
       ELSE /\ wf_status' = wf_status
            /\ wf_ret' = [op |-> "pause_workflow", ok |-> FALSE]
    /\ UNCHANGED <<steps, _agents, _max_parallel_steps, _running_workflows,
                   _workflow_results, pc, completed_steps, step_results, outputs,
                   ready_steps, coros, executions>>
    /\ UNCHANGED <<qvars, clvars, cbvars, restvars>>

\* ---------------------------------------------------------- CorrectionLoop
\* scores are held in hundredths, and a mean as the fraction num / den
Score(hundredths) == [num |-> hundredths, den |-> 1]

\* score >= min_passing_score
ScoreAtLeast(score, min) == score.num >= min * score.den

\* EvaluationResult(evaluator_name, passed, score, findings, needs_correction,
\* correction_suggestions)
EvaluationResult(passed, score, findings, needs_correction, correction_suggestions) ==
    [passed |-> passed, score |-> score, findings |-> findings,
     needs_correction |-> needs_correction,
     correction_suggestions |-> correction_suggestions]

\* sum(r.score for r in results)
RECURSIVE SumScores(_, _)
SumScores(results, i) ==
    IF i > Len(results) THEN 0 ELSE results[i].score.num + SumScores(results, i + 1)

\* the loops extending all_findings and all_suggestions
RECURSIVE ExtendAll(_, _, _)
ExtendAll(results, field, i) ==
    IF i > Len(results) THEN <<>>
    ELSE results[i][field] \o ExtendAll(results, field, i + 1)

\* _combine_results taking needs_correction from all() as passed is
_combine_results_all(results) ==
    IF Len(results) = 0
    THEN EvaluationResult(TRUE, Score(100), <<>>, FALSE, <<>>)
    ELSE EvaluationResult(
            \A i \in 1..Len(results) : results[i].passed,
            [num |-> SumScores(results, 1), den |-> Len(results)],
            ExtendAll(results, "findings", 1),
            \A i \in 1..Len(results) : results[i].needs_correction,
            ExtendAll(results, "correction_suggestions", 1))

\* CorrectionLoop._combine_results
_combine_results(results) ==
    IF Len(results) = 0
    THEN EvaluationResult(TRUE, Score(100), <<>>, FALSE, <<>>)
    ELSE EvaluationResult(
            \A i \in 1..Len(results) : results[i].passed,
            [num |-> SumScores(results, 1), den |-> Len(results)],
            ExtendAll(results, "findings", 1),
            \E i \in 1..Len(results) : results[i].needs_correction,
            ExtendAll(results, "correction_suggestions", 1))

\* the sequences over a set with at most n elements
SeqsUpTo(S, n) == UNION { [1..k -> S] : k \in 0..n }

\* a combined_result not computed yet
NoEvaluation == EvaluationResult(FALSE, [num |-> 0, den |-> 0], <<>>, FALSE, <<>>)

\* run has not returned yet
NoLoopResult == [isNone |-> TRUE, success |-> FALSE, final_output |-> "none",
                 iterations |-> <<>>, total_iterations |-> 0, status |-> "pending"]

\* CorrectionLoopResult(success, final_output, iterations, total_iterations, status)
CorrectionLoopResult(success, final_output, its, total_iterations, status) ==
    [isNone |-> FALSE, success |-> success, final_output |-> final_output,
     iterations |-> its, total_iterations |-> total_iterations, status |-> status]

\* EvaluationFinding(category, severity, message)
EvaluationFinding(category, severity) == [category |-> category, severity |-> severity]

\* what the evaluators of a loop may return: findings play no part in run's decisions
LoopScores == {50, 100}
LoopResults ==
    { EvaluationResult(p, Score(s), <<>>, n, <<>>) :
        p \in BOOLEAN, s \in LoopScores, n \in BOOLEAN }

\* results with findings: a pass, a failure nothing can correct, and failures
\* asking for a correction with no finding, a warning or an error in category syntax
FindingResults ==
    { EvaluationResult(TRUE, Score(100), <<>>, FALSE, <<>>),
      EvaluationResult(FALSE, Score(50), <<>>, FALSE, <<>>),
      EvaluationResult(FALSE, Score(50), <<>>, TRUE, <<>>) }
    \cup { EvaluationResult(FALSE, Score(50), <<EvaluationFinding("syntax", v)>>, TRUE, <<>>) :
             v \in {"error", "warning"} }

\* the outputs handed to run, and no output
LoopOutputs == {"o1", "o2"}
NoOutput == "none"

\* what a correction handler would make of an output
Corrected(output) == "corrected"

\* the findings from the i-th on that _apply_corrections finds a handler for
RECURSIVE Correctable(_, _, _)
Correctable(findings, handlers, i) ==
    IF i > Len(findings) THEN <<>>
    ELSE (IF findings[i].severity \in {"error", "critical"}
             /\ findings[i].category \in handlers
          THEN <<findings[i].category>>
          ELSE <<>>)
         \o Correctable(findings, handlers, i + 1)

\* _apply_corrections calling the handler of every finding it has one for
_apply_corrections_calling(output, evaluation_result, handlers) ==
    LET applied == Correctable(evaluation_result.findings, handlers, 1) IN
    [corrections_applied |-> IF applied = <<>> THEN <<"none available">> ELSE applied,
     output |-> IF applied = <<>> THEN output ELSE Corrected(output),
     calls |-> Len(applied)]

\* CorrectionLoop._apply_corrections: the handler is looked up, a description
\* is appended, the handler is not called and the output is not touched
_apply_corrections(output, evaluation_result, handlers) ==
    LET applied == Correctable(evaluation_result.findings, handlers, 1) IN
    [corrections_applied |-> IF applied = <<>> THEN <<"none available">> ELSE applied,
     output |-> output,
     calls |-> 0]

\* the loops of CorrectionLoopFactory (2 and 3 iterations) and one that never iterates
IterationChoices == {0, 2, 3}
MinScoreChoices == {50, 80}
MaxCorrectionsChoices == {1, 3}
\* the categories a correction handler is registered for
HandlerChoices == {{}, {"syntax"}}

\* a loop and a task nobody has run the loop on
LoopIdle ==
    /\ loop_task = [status |-> "in_progress", correction_count |-> 0, max_corrections |-> 3]
    /\ _evaluators = 0
    /\ _max_iterations = 3
    /\ _min_passing_score = 80
    /\ run_pc = "idle"
    /\ iteration_num = 0
    /\ iterations = <<>>
    /\ combined_result = NoEvaluation
    /\ loop_result = NoLoopResult
    /\ runs = 0
    /\ _correction_handlers = {}
    /\ initial_output = NoOutput
    /\ current_output = NoOutput
    /\ handler_calls = 0

\* CorrectionLoop.__init__, and a task in progress with its correction counter at 0
LoopInit ==
    /\ loop_task \in { [status |-> "in_progress", correction_count |-> 0,
                        max_corrections |-> m] : m \in MaxCorrectionsChoices }
    /\ _evaluators \in 0..MaxEvaluators
    /\ _max_iterations \in IterationChoices
    /\ _min_passing_score \in MinScoreChoices
    /\ run_pc = "idle"
    /\ iteration_num = 0
    /\ iterations = <<>>
    /\ combined_result = NoEvaluation
    /\ loop_result = NoLoopResult
    /\ runs = 0
    /\ _correction_handlers = {}
    /\ initial_output = NoOutput
    /\ current_output = NoOutput
    /\ handler_calls = 0

\* run, lines 113-115: a call of run on the task with an initial_output
RunBegin(output) ==
    /\ run_pc \in {"idle", "returned"}
    /\ runs < MaxRuns
    /\ runs' = runs + 1
    /\ initial_output' = output
    /\ current_output' = output
    /\ iteration_num' = 0
    /\ iterations' = <<>>
    /\ combined_result' = NoEvaluation
    /\ loop_result' = NoLoopResult
    /\ run_pc' = "loop"
    /\ UNCHANGED <<loop_task, _evaluators, _max_iterations, _min_passing_score,
                   _correction_handlers, handler_calls>>
    /\ UNCHANGED <<qvars, wfvars, cbvars, restvars>>

\* the passing test dropping the score threshold
passes_ignoring_score(result, min) == result.passed

\* run, line 128: combined_result.passed and combined_result.score >= min_passing_score
passes(result, min) == result.passed /\ ScoreAtLeast(result.score, min)

\* the range giving one value too many
range_exhausted_late(num, max_iterations) == num > max_iterations

\* run, line 117: range(self._max_iterations) has no value left after num values
range_exhausted(num, max_iterations) == num >= max_iterations

\* run, lines 117-158: one pass of the loop body, the evaluators returning results
Iterate(results) ==
    /\ run_pc = "loop"
    /\ ~range_exhausted(iteration_num, _max_iterations)
    /\ results \in [1.._evaluators -> LoopResults \cup FindingResults]
    /\ LET c == _combine_results(results)
           entry(applied) == [iteration_number |-> iteration_num + 1,
                              correction_applied |-> applied]
       IN /\ combined_result' = c
          /\ IF passes(c, _min_passing_score)
             THEN /\ iterations' = Append(iterations, entry(FALSE))
                  /\ loop_result' = CorrectionLoopResult(TRUE, current_output, iterations',
                                                         iteration_num + 1, "completed")
                  /\ run_pc' = "returned"
                  /\ UNCHANGED <<loop_task, iteration_num, current_output, handler_calls>>
             ELSE IF ~c.needs_correction
             THEN /\ iterations' = Append(iterations, entry(FALSE))
                  /\ loop_result' = CorrectionLoopResult(c.passed, current_output, iterations',
                                                         iteration_num + 1, "completed")
                  /\ run_pc' = "returned"
                  /\ UNCHANGED <<loop_task, iteration_num, current_output, handler_calls>>
             ELSE /\ iterations' = Append(iterations, entry(TRUE))
                  /\ loop_task' = update_status(
                        [loop_task EXCEPT !.correction_count = @ + 1], "needs_correction")
                  /\ iteration_num' = iteration_num + 1
                  /\ \E a \in {_apply_corrections(current_output, c, _correction_handlers)} :
                        /\ current_output' = a.output
                        /\ handler_calls' = handler_calls + a.calls
                  /\ UNCHANGED <<loop_result, run_pc>>
    /\ UNCHANGED <<_evaluators, _max_iterations, _min_passing_score, runs,
                   _correction_handlers, initial_output>>
    /\ UNCHANGED <<qvars, wfvars, cbvars, restvars>>

\* run, lines 160-168: the range is exhausted
Exhausted ==
    /\ run_pc = "loop"
    /\ range_exhausted(iteration_num, _max_iterations)
    /\ loop_task' = update_status(loop_task, "failed")
    /\ loop_result' = CorrectionLoopResult(FALSE, current_output, iterations,
                                           _max_iterations, "max_iterations_reached")
    /\ run_pc' = "returned"
    /\ UNCHANGED <<_evaluators, _max_iterations, _min_passing_score, iteration_num,
                   iterations, combined_result, runs, _correction_handlers,
                   initial_output, current_output, handler_calls>>
    /\ UNCHANGED <<qvars, wfvars, cbvars, restvars>>

\* ------------------------------------------------------ _combine_results
\* what evaluators hand to _combine_results: results with findings and suggestions
CombineScores == {50, 100}
FindingLists == {<<>>, <<"f1">>, <<"f2", "f1">>}
SuggestionLists == {<<>>, <<"s1">>}
CombineResults ==
    { EvaluationResult(p, Score(s), f, n, g) :
        p \in BOOLEAN, s \in CombineScores, f \in FindingLists, n \in BOOLEAN,
        g \in SuggestionLists }

\* no list has been handed to _combine_results
CombineIdle ==
    /\ evaluation_results = <<>>
    /\ combined = NoEvaluation

\* a list of evaluator results, not combined yet
CombineInit ==
    /\ evaluation_results \in SeqsUpTo(CombineResults, MaxEvaluators)
    /\ combined = NoEvaluation

\* run, line 120: combined_result = self._combine_results(evaluation_results)
Combine ==
    /\ combined = NoEvaluation
    /\ combined' = _combine_results(evaluation_results)
    /\ UNCHANGED evaluation_results
    /\ UNCHANGED <<qvars, wfvars, clvars, restvars>>

\* ------------------------------------------- RetryConfig methods, called alone
\* the configurations and arguments the policy methods are called with
PolicyBases == {0, 1, 2}
PolicyMaxDelays == {0, 3, 10}
PolicyErrorLists == { <<>>, << <<"T", "o">> >>, << <<"X">>, <<"T", "o">> >> }
PolicyConfigs ==
    { RetryConfig(s, 3, b, m, e) :
        s \in RetryStrategy, b \in PolicyBases, m \in PolicyMaxDelays,
        e \in PolicyErrorLists }
PolicyErrors == {NoneErr, ErrTimeout, ErrBad, Msg(<<"o", "k">>)}

\* no policy method has returned
NoPolicyRet == [op |-> "none", flag |-> FALSE, delay |-> 0]

\* no policy method is being called
PolicyIdle ==
    /\ call_config = ExpConfig
    /\ call_error = NoneErr
    /\ call_attempt = 1
    /\ call_ret = NoPolicyRet

\* a configuration and the arguments of a call, 1-based attempt
PolicyInit ==
    /\ call_config \in PolicyConfigs
    /\ call_error \in PolicyErrors
    /\ call_attempt \in 1..MaxAttemptArg
    /\ call_ret = NoPolicyRet

\* config.should_retry(error_message)
ShouldRetryCall ==
    /\ call_ret.op # "should_retry"
    /\ call_ret' = [op |-> "should_retry",
                    flag |-> should_retry(call_config, call_error), delay |-> 0]
    /\ UNCHANGED <<call_config, call_error, call_attempt>>
    /\ UNCHANGED <<qvars, wfvars, clvars, cbvars, auxvars, ovars, cvars>>

\* config.calculate_delay(attempt)
CalculateDelayCall ==
    /\ call_ret.op # "calculate_delay"
    /\ call_ret' = [op |-> "calculate_delay", flag |-> FALSE,
                    delay |-> calculate_delay(call_config, call_attempt)]
    /\ UNCHANGED <<call_config, call_error, call_attempt>>
    /\ UNCHANGED <<qvars, wfvars, clvars, cbvars, auxvars, ovars, cvars>>

\* the state of everything outside the queue, the engine and the correction loop
\* ------------------------------------------------------------- Orchestrator
AgentCapability == {"planning", "coding", "testing", "security_analysis",
                    "documentation", "code_review", "task_decomposition", "evaluation"}
TaskType == {"planning", "development", "testing", "security_review",
             "documentation", "code_review", "bug_fix", "feature"}

\* Orchestrator._task_type_mapping
_task_type_mapping(task_type) ==
    CASE task_type = "planning" -> <<"planning", "task_decomposition">>
      [] task_type = "development" -> <<"coding">>
      [] task_type = "testing" -> <<"testing">>
      [] task_type = "security_review" -> <<"security_analysis">>
      [] task_type = "documentation" -> <<"documentation">>
      [] task_type = "code_review" -> <<"code_review", "evaluation">>
      [] task_type = "bug_fix" -> <<"coding", "testing">>
      [] task_type = "feature" -> <<"planning", "coding">>
      [] OTHER -> <<>>

\* an agent object: the class it was built from and the name given to its constructor
DevAgent(name) == [name |-> name, cls |-> "DevAgent"]
QAAgent(name) == [name |-> name, cls |-> "QAAgent"]
PMAgent(name) == [name |-> name, cls |-> "PMAgent"]

\* BaseAgent.capabilities: the list each class hands to BaseAgent.__init__
capabilities(agent) ==
    CASE agent.cls = "DevAgent" -> <<"coding", "code_review">>
      [] agent.cls = "QAAgent" -> <<"testing", "evaluation">>
      [] agent.cls = "PMAgent" -> <<"planning", "task_decomposition", "evaluation">>

\* BaseAgent.can_handle: the _can_handle_impl of each class
can_handle(agent, task_type) ==
    CASE agent.cls = "DevAgent" ->
            task_type \in {"development", "bug_fix", "code_review", "feature"}
      [] agent.cls = "QAAgent" -> task_type \in {"testing", "code_review", "evaluation"}
      [] agent.cls = "PMAgent" -> task_type \in {"planning", "feature", "task_decomposition"}

\* the agents that callers build and register; two of them are built with the same name
AgentNames == {"x", "y"}
AgentPool == {DevAgent("x"), QAAgent("x"), QAAgent("y"), PMAgent("y")}
NoAgentName == "none"

\* position of a name in the _agents dict, 0 when absent
AgentIndexOf(agents, name) ==
    IF \E i \in 1..Len(agents) : agents[i].name = name
    THEN CHOOSE i \in 1..Len(agents) : agents[i].name = name
    ELSE 0

\* name in a list of names
InList(names, name) == \E i \in 1..Len(names) : names[i] = name

\* list.remove(name): drops the first occurrence
RemoveFirst(names, name) ==
    LET k == CHOOSE i \in 1..Len(names) :
                names[i] = name /\ \A j \in 1..(i - 1) : names[j] # name
    IN SubSeq(names, 1, k - 1) \o SubSeq(names, k + 1, Len(names))

\* has the capability list the capability
HasCapability(agent, capability) == InList(capabilities(agent), capability)

\* Orchestrator.__init__: no agent, empty capability index
EmptyRegistry == [agents |-> <<>>, index |-> [c \in AgentCapability |-> <<>>]]

\* Orchestrator.register_agent on the pair (_agents, _capability_index)
register_agent(reg, agent) ==
    [agents |-> IF AgentIndexOf(reg.agents, agent.name) = 0
                THEN Append(reg.agents, agent)
                ELSE [reg.agents EXCEPT ![AgentIndexOf(reg.agents, agent.name)] = agent],
     index |-> [c \in AgentCapability |->
                  IF HasCapability(agent, c) /\ ~InList(reg.index[c], agent.name)
                  THEN Append(reg.index[c], agent.name)
                  ELSE reg.index[c]]]

\* Orchestrator.unregister_agent
unregister_agent(reg, agent_name) ==
    LET k == AgentIndexOf(reg.agents, agent_name) IN
    IF k = 0 THEN reg
    ELSE [agents |-> SubSeq(reg.agents, 1, k - 1) \o SubSeq(reg.agents, k + 1, Len(reg.agents)),
          index |-> [c \in AgentCapability |->
                       IF HasCapability(reg.agents[k], c) /\ InList(reg.index[c], agent_name)
                       THEN RemoveFirst(reg.index[c], agent_name)
                       ELSE reg.index[c]]]

\* [self._agents[name] for name in agent_names if name in self._agents]
RECURSIVE AgentsNamed(_, _, _)
AgentsNamed(agents, names, i) ==
    IF i > Len(names) THEN <<>>
    ELSE (IF AgentIndexOf(agents, names[i]) # 0
          THEN <<agents[AgentIndexOf(agents, names[i])]>>
          ELSE <<>>)
         \o AgentsNamed(agents, names, i + 1)

\* Orchestrator.get_agents_by_capability
get_agents_by_capability(reg, capability) ==
    AgentsNamed(reg.agents, reg.index[capability], 1)

\* the inner loop of find_agents_for_task without the can_handle test
RECURSIVE AppendSuitable_unfiltered(_, _, _, _)
AppendSuitable_unfiltered(suitable, agents, task_type, i) ==
    IF i > Len(agents) THEN suitable
    ELSE AppendSuitable_unfiltered(
            IF \A j \in 1..Len(suitable) : suitable[j] # agents[i]
            THEN Append(suitable, agents[i])
            ELSE suitable,
            agents, task_type, i + 1)

\* the inner loop of find_agents_for_task over the agents of one capability
RECURSIVE AppendSuitable(_, _, _, _)
AppendSuitable(suitable, agents, task_type, i) ==
    IF i > Len(agents) THEN suitable
    ELSE AppendSuitable(
            IF (\A j \in 1..Len(suitable) : suitable[j] # agents[i])
               /\ can_handle(agents[i], task_type)
            THEN Append(suitable, agents[i])
            ELSE suitable,
            agents, task_type, i + 1)

\* the outer loop of find_agents_for_task over required_capabilities
RECURSIVE SuitableFrom(_, _, _, _, _)
SuitableFrom(suitable, reg, required, task_type, k) ==
    IF k > Len(required) THEN suitable
    ELSE SuitableFrom(
            AppendSuitable(suitable, get_agents_by_capability(reg, required[k]), task_type, 1),
            reg, required, task_type, k + 1)

\* Orchestrator.find_agents_for_task
find_agents_for_task(reg, task_type) ==
    SuitableFrom(<<>>, reg, _task_type_mapping(task_type), task_type, 1)

\* the orchestrator's registry as one value
Reg == [agents |-> orch_agents, index |-> _capability_index]

\* Task(...) with the two fields the orchestrator reads and writes
OrchTask(id, priority, dependencies, created_at, task_type) ==
    [id |-> id, priority |-> priority, dependencies |-> dependencies,
     created_at |-> created_at, status |-> "pending",
     retry_config |-> ExpConfig,
     retry_state |-> [attempt |-> 0, last_error |-> NoneErr, next_retry_at |-> NoTime],
     result |-> NoResult,
     task_type |-> task_type, assigned_agent |-> NoAgentName]

\* the tasks submitted to the orchestrator
OrchTasks == { OrchTask("A", "low", {}, 0, "development"),
               OrchTask("B", "critical", {"A"}, 1, "testing"),
               OrchTask("C", "high", {}, 2, "code_review") }

\* the registries the orchestrator holds when tasks arrive
OrchRegistries ==
    { EmptyRegistry,
      register_agent(EmptyRegistry, DevAgent("x")),
      register_agent(EmptyRegistry, PMAgent("y")),
      register_agent(register_agent(EmptyRegistry, QAAgent("y")), DevAgent("x")) }

\* the coroutines running on the orchestrator: run_task_loop calls and direct
\* process_task calls
Loops == {"L1", "L2"}
Callers == {"P1"}
Invocations == Loops \cup Callers

\* a coroutine: where it stands, the task and agent of its handle_task call,
\* the tasks it pulled from the queue, the TaskResult process_task returned
Proc(p, task_id, agent, pulled, result) ==
    [pc |-> p, task |-> task_id, agent |-> agent, pulled |-> pulled, result |-> result]
NoAgentObj == [name |-> NoAgentName, cls |-> "none"]
IdleProc == Proc("idle", NoId, NoAgentObj, {}, NoResult)

\* AgentResponse: the two fields process_task reads
Responses == [success : BOOLEAN, needs_correction : BOOLEAN]

\* TaskResult(success=..., error_message=...)
TaskResult(success, error_message) ==
    [isNone |-> FALSE, success |-> success, error_message |-> error_message,
     retry_attempt |-> 0]

\* f"No suitable agent found for task type: {task.task_type}"
NoSuitableAgent == Msg(<<"No suitable agent found for task type">>)

\* CorrectionLoopFactory.create_default_loop().run: no evaluator is registered,
\* so the first pass of run decides
default_loop_success ==
    LET c == _combine_results(<<>>) IN
    IF range_exhausted(0, DefaultMaxIterations) THEN FALSE
    ELSE IF passes(c, DefaultMinPassingScore) THEN TRUE
    ELSE c.passed

\* process_task taking the agent's success flag whatever the response asks for
process_result_from_response(response) == TaskResult(response.success, NoneErr)

\* process_task, lines 196-214: the TaskResult built from the agent's response
process_result(response) ==
    IF enable_correction_loops /\ response.needs_correction
    THEN TaskResult(default_loop_success, NoneErr)
    ELSE TaskResult(response.success, NoneErr)

\* run_task_loop leaving a failed task as process_task left it
loop_settle_success_only(tasks, completed, i, result) ==
    IF result.success
    THEN [tasks |-> [tasks EXCEPT ![i] = [@ EXCEPT !.result = result, !.status = "completed"]],
          completed |-> completed \cup {tasks[i].id}]
    ELSE [tasks |-> [tasks EXCEPT ![i] = [@ EXCEPT !.result = result]],
          completed |-> completed]

\* run_task_loop, lines 232-238: task.result = result, then mark_completed or
\* update_status(FAILED)
loop_settle(tasks, completed, i, result) ==
    IF result.success
    THEN [tasks |-> [tasks EXCEPT ![i] = [@ EXCEPT !.result = result, !.status = "completed"]],
          completed |-> completed \cup {tasks[i].id}]
    ELSE [tasks |-> [tasks EXCEPT ![i] = [@ EXCEPT !.result = result, !.status = "failed"]],
          completed |-> completed]

\* Orchestrator.__init__ with some agents registered, idle coroutines
OrchIdle ==
    /\ orch_agents = <<>>
    /\ _capability_index = EmptyRegistry.index
    /\ enable_correction_loops = TRUE
    /\ _is_running = FALSE
    /\ procs = [p \in Invocations |-> IdleProc]
    /\ handle_log = {}
    /\ stop_called = FALSE

OrchInit ==
    /\ \E reg \in OrchRegistries :
          /\ orch_agents = reg.agents
          /\ _capability_index = reg.index
    /\ enable_correction_loops \in BOOLEAN
    /\ _is_running = FALSE
    /\ procs = [p \in Invocations |-> IdleProc]
    /\ handle_log = {}
    /\ stop_called = FALSE

\* Orchestrator.register_agent
RegisterAgent(agent) ==
    /\ LET reg == register_agent(Reg, agent) IN
          /\ orch_agents' = reg.agents
          /\ _capability_index' = reg.index
    /\ UNCHANGED <<enable_correction_loops, _is_running, procs, handle_log, stop_called>>
    /\ UNCHANGED <<qvars, wfvars, clvars, cbvars, auxvars, pvars, cvars>>

\* Orchestrator.unregister_agent
UnregisterAgent(agent_name) ==
    /\ LET reg == unregister_agent(Reg, agent_name) IN
          /\ orch_agents' = reg.agents
          /\ _capability_index' = reg.index
    /\ UNCHANGED <<enable_correction_loops, _is_running, procs, handle_log, stop_called>>
    /\ UNCHANGED <<qvars, wfvars, clvars, cbvars, auxvars, pvars, cvars>>

\* Orchestrator.submit_task: add_task of a task with a fresh uuid4 id
SubmitTask(task) ==
    /\ IndexOf(_tasks, task.id) = 0
    /\ _tasks' = Append(_tasks, task)
    /\ UNCHANGED <<_completed_tasks, now, ret>>
    /\ UNCHANGED <<ovars, wfvars, clvars, cbvars, auxvars, pvars, cvars>>

\* what a coroutine's step writes: the queue, the coroutine, the handle_task log
Step(inv, tasks, completed, proc) ==
    /\ _tasks' = tasks
    /\ _completed_tasks' = completed
    /\ procs' = [procs EXCEPT ![inv] = proc]
    /\ handle_log' = IF proc.pc = "handling"
                     THEN handle_log \cup {<<inv, proc.agent, proc.task>>}
                     ELSE handle_log

\* run_task_loop from the head of its while loop up to the point where it
\* suspends in handle_task or returns: a task without a suitable agent is
\* settled on the spot and the loop goes round again
RECURSIVE LoopAdvance(_, _, _, _, _)
LoopAdvance(loop, tasks, completed, running, proc) ==
    IF ~running
    THEN Step(loop, tasks, completed, [proc EXCEPT !.pc = "returned"])
    ELSE \E i \in {get_next_task(tasks, completed)} :
         IF i = 0
         THEN Step(loop, tasks, completed, [proc EXCEPT !.pc = "returned"])
         ELSE \E found \in {find_agents_for_task(Reg, tasks[i].task_type)},
                 pulled \in {proc.pulled \cup {tasks[i].id}} :
              IF Len(found) = 0
              THEN \E settled \in {loop_settle(
                                      [tasks EXCEPT ![i] = update_status(@, "queued")],
                                      completed, i, TaskResult(FALSE, NoSuitableAgent))} :
                      LoopAdvance(loop, settled.tasks, settled.completed, running,
                                  [proc EXCEPT !.pulled = pulled])
              ELSE Step(loop,
                        [tasks EXCEPT ![i] = [@ EXCEPT !.assigned_agent = found[1].name,
                                                       !.status = "in_progress"]],
                        completed,
                        Proc("handling", tasks[i].id, found[1], pulled, NoResult))

\* Orchestrator.run_task_loop called: _is_running = True, then the while loop
RunTaskLoop(loop) ==
    /\ procs[loop].pc = "idle"
    /\ _is_running' = TRUE
    /\ LoopAdvance(loop, _tasks, _completed_tasks, TRUE, procs[loop])
    /\ UNCHANGED <<orch_agents, _capability_index, enable_correction_loops, stop_called>>
    /\ UNCHANGED <<now, ret, wfvars, clvars, cbvars, auxvars, pvars, cvars>>

\* agent.handle_task returns its response to a run_task_loop: process_task
\* builds the result, the loop settles the task and goes round again
LoopHandleReturn(loop, response) ==
    /\ procs[loop].pc = "handling"
    /\ \E result \in {process_result(response)} :
       \E settled \in {loop_settle(_tasks, _completed_tasks,
                                   IndexOf(_tasks, procs[loop].task), result)} :
          LoopAdvance(loop, settled.tasks, settled.completed, _is_running,
                      [procs[loop] EXCEPT !.result = result])
    /\ UNCHANGED <<orch_agents, _capability_index, enable_correction_loops, _is_running,
                   stop_called>>
    /\ UNCHANGED <<now, ret, wfvars, clvars, cbvars, auxvars, pvars, cvars>>

\* Orchestrator.process_task called by a caller of its own on a task of the queue
ProcessTask(caller, task_id) ==
    /\ procs[caller].pc = "idle"
    /\ IndexOf(_tasks, task_id) # 0
    /\ LET i == IndexOf(_tasks, task_id)
           found == find_agents_for_task(Reg, _tasks[i].task_type)
       IN IF Len(found) = 0
          THEN Step(caller, _tasks, _completed_tasks,
                    Proc("returned", task_id, NoAgentObj, {},
                         TaskResult(FALSE, NoSuitableAgent)))
          ELSE Step(caller,
                    [_tasks EXCEPT ![i] = [@ EXCEPT !.assigned_agent = found[1].name,
                                                    !.status = "in_progress"]],
                    _completed_tasks,
                    Proc("handling", task_id, found[1], {}, NoResult))
    /\ UNCHANGED <<orch_agents, _capability_index, enable_correction_loops, _is_running,
                   stop_called>>
    /\ UNCHANGED <<now, ret, wfvars, clvars, cbvars, auxvars, pvars, cvars>>

\* agent.handle_task returns its response to a direct process_task call
ProcessTaskReturn(caller, response) ==
    /\ caller \in Callers
    /\ procs[caller].pc = "handling"
    /\ procs' = [procs EXCEPT ![caller] =
                    [@ EXCEPT !.pc = "returned", !.result = process_result(response)]]
    /\ UNCHANGED <<orch_agents, _capability_index, enable_correction_loops, _is_running,
                   handle_log, stop_called>>
    /\ UNCHANGED <<qvars, wfvars, clvars, cbvars, auxvars, pvars, cvars>>

\* Orchestrator.stop
Stop ==
    /\ _is_running' = FALSE
    /\ stop_called' = TRUE
    /\ UNCHANGED <<orch_agents, _capability_index, enable_correction_loops, procs,
                   handle_log>>
    /\ UNCHANGED <<qvars, wfvars, clvars, cbvars, auxvars, pvars, cvars>>

\* ------------------------------------------------------------ Conversation
ConversationStatus == {"active", "paused", "completed", "failed"}

\* the id create_conversation hands out, and an id no conversation was created under
ConvIds == {"c1"}
UnknownConvId == "c0"

\* no Conversation object
NoConversation == [isNone |-> TRUE, participants |-> <<>>, status |-> "active",
                   turns |-> <<>>, max_turns |-> 0]

\* Conversation(topic, participants, max_turns): active, no turn yet
Conversation(participants, max_turns) ==
    [isNone |-> FALSE, participants |-> participants, status |-> "active",
     turns |-> <<>>, max_turns |-> max_turns]

\* the max_turns a caller passes to the Conversation constructor
MaxTurnsChoices == {1, 2, 3, DefaultMaxTurns}

\* the participant lists create_conversation is called with
ParticipantLists == {<<>>, <<"x">>, <<"x", "y">>}

\* Conversation.add_turn on a conversation object; a turn is its speaker
add_turn(conv, speaker) ==
    LET turns == Append(conv.turns, speaker) IN
    [conv EXCEPT
        !.turns = turns,
        !.status = IF Len(turns) >= conv.max_turns THEN "completed" ELSE @]

\* Conversation.is_active
is_active(conv) == conv.status = "active"

\* ConversationManager.get_conversation: NoConversation for None
get_conversation(conversations, conversation_id) ==
    IF conversation_id \in DOMAIN conversations
    THEN conversations[conversation_id]
    ELSE NoConversation

\* name in self._agents
Registered(name) == AgentIndexOf(orch_agents, name) # 0

\* [name for name in participant_names if name in self._agents]
RECURSIVE valid_participants(_, _)
valid_participants(names, i) ==
    IF i > Len(names) THEN <<>>
    ELSE (IF Registered(names[i]) THEN <<names[i]>> ELSE <<>>)
         \o valid_participants(names, i + 1)

\* send_message accepting every conversation and recipient
send_accepts_always(conversations, conversation_id, recipient) == TRUE

\* send_message, lines 293-298: the two early returns not taken
send_accepts(conversations, conversation_id, recipient) ==
    LET found == get_conversation(conversations, conversation_id) IN
    /\ ~found.isNone
    /\ is_active(found)
    /\ Registered(recipient)

\* a send_message call: where it stands, its arguments, what it returned
SendCall(p, conversation_id, sender, recipient, returned) ==
    [pc |-> p, conversation_id |-> conversation_id, sender |-> sender,
     recipient |-> recipient, ret |-> returned]
NoSend == SendCall("idle", UnknownConvId, NoAgentName, NoAgentName, "none")

\* a broadcast_message call: where it stands, its arguments, the participants
\* its loop has still to visit, the recipient it awaits, the responses it holds
BroadcastCall(p, conversation_id, sender, rest, awaited, responses) ==
    [pc |-> p, conversation_id |-> conversation_id, sender |-> sender,
     rest |-> rest, awaited |-> awaited, responses |-> responses]
NoBroadcast == BroadcastCall("idle", UnknownConvId, NoAgentName, <<>>, NoAgentName, 0)

\* broadcast_message, lines 334-343: the loop over the participants up to the
\* point where a send_message suspends in process_message, or to the return
RECURSIVE BroadcastAdvance(_, _)
BroadcastAdvance(call, conversations) ==
    IF Len(call.rest) = 0 THEN [call EXCEPT !.pc = "returned"]
    ELSE LET participant == Head(call.rest) IN
         IF /\ participant # call.sender
            /\ Registered(participant)
            /\ send_accepts(conversations, call.conversation_id, participant)
         THEN [call EXCEPT !.pc = "awaiting", !.awaited = participant,
                           !.rest = Tail(call.rest)]
         ELSE BroadcastAdvance([call EXCEPT !.rest = Tail(call.rest)], conversations)

\* process_message invocations made so far
TotalCalls == process_calls["x"] + process_calls["y"]

\* ConversationManager.__init__, no call made
ConvIdle ==
    /\ _conversations = [c \in {} |-> NoConversation]
    /\ conversation = NoConversation
    /\ send_call = NoSend
    /\ broadcast_call = NoBroadcast
    /\ process_calls = [n \in AgentNames |-> 0]

\* Conversation(topic=..., max_turns=...) built by a caller, outside any manager
NewConversation(max_turns) ==
    /\ conversation.isNone
    /\ conversation' = Conversation(<<>>, max_turns)
    /\ UNCHANGED <<_conversations, send_call, broadcast_call, process_calls>>
    /\ UNCHANGED <<qvars, wfvars, clvars, cbvars, auxvars, pvars, ovars>>

\* Orchestrator.create_conversation and ConversationManager.create_conversation
CreateConversation(conversation_id, participant_names) ==
    /\ conversation_id \in ConvIds \ DOMAIN _conversations
    /\ _conversations' =
          [c \in DOMAIN _conversations \cup {conversation_id} |->
              IF c = conversation_id
              THEN Conversation(valid_participants(participant_names, 1), DefaultMaxTurns)
              ELSE _conversations[c]]
    /\ UNCHANGED <<conversation, send_call, broadcast_call, process_calls>>
    /\ UNCHANGED <<qvars, wfvars, clvars, cbvars, auxvars, pvars, ovars>>

\* Conversation.add_turn on the caller's own conversation
AddTurn(speaker) ==
    /\ ~conversation.isNone
    /\ Len(conversation.turns) < MaxTurnsLen
    /\ conversation' = add_turn(conversation, speaker)
    /\ UNCHANGED <<_conversations, send_call, broadcast_call, process_calls>>
    /\ UNCHANGED <<qvars, wfvars, clvars, cbvars, auxvars, pvars, ovars>>

\* Conversation.complete on the caller's own conversation
CompleteConversation ==
    /\ ~conversation.isNone
    /\ conversation' = [conversation EXCEPT !.status = "completed"]
    /\ UNCHANGED <<_conversations, send_call, broadcast_call, process_calls>>
    /\ UNCHANGED <<qvars, wfvars, clvars, cbvars, auxvars, pvars, ovars>>

\* ConversationManager.end_conversation
EndConversation(conversation_id) ==
    /\ IF conversation_id \in DOMAIN _conversations
       THEN _conversations' = [_conversations EXCEPT ![conversation_id].status = "completed"]
       ELSE UNCHANGED _conversations
    /\ UNCHANGED <<conversation, send_call, broadcast_call, process_calls>>
    /\ UNCHANGED <<qvars, wfvars, clvars, cbvars, auxvars, pvars, ovars>>

\* Orchestrator.send_message called: an early return of None, or the
\* recipient's process_message invoked
SendMessage(conversation_id, sender, recipient) ==
    /\ send_call.pc \in {"idle", "returned"}
    /\ TotalCalls < MaxSends
    /\ IF send_accepts(_conversations, conversation_id, recipient)
       THEN /\ send_call' = SendCall("awaiting", conversation_id, sender, recipient, "none")
            /\ process_calls' = [process_calls EXCEPT ![recipient] = @ + 1]
       ELSE /\ send_call' = SendCall("returned", conversation_id, sender, recipient, "none")
            /\ UNCHANGED process_calls
    /\ UNCHANGED <<_conversations, conversation, broadcast_call>>
    /\ UNCHANGED <<qvars, wfvars, clvars, cbvars, auxvars, pvars, ovars>>

\* process_message returns: send_message returns the response
SendReturn ==
    /\ send_call.pc = "awaiting"
    /\ send_call' = [send_call EXCEPT !.pc = "returned", !.ret = "response"]
    /\ UNCHANGED <<_conversations, conversation, broadcast_call, process_calls>>
    /\ UNCHANGED <<qvars, wfvars, clvars, cbvars, auxvars, pvars, ovars>>

\* what a step of broadcast_message writes
BroadcastStep(after) ==
    /\ broadcast_call' = after
    /\ process_calls' = IF after.pc = "awaiting"
                        THEN [process_calls EXCEPT ![after.awaited] = @ + 1]
                        ELSE process_calls

\* Orchestrator.broadcast_message called: [] at once, or the loop is entered
BroadcastMessage(conversation_id, sender) ==
    /\ broadcast_call.pc \in {"idle", "returned"}
    /\ TotalCalls < MaxSends
    /\ LET found == get_conversation(_conversations, conversation_id) IN
       IF found.isNone \/ ~is_active(found)
       THEN BroadcastStep(BroadcastCall("returned", conversation_id, sender, <<>>,
                                        NoAgentName, 0))
       ELSE BroadcastStep(BroadcastAdvance(
                BroadcastCall("loop", conversation_id, sender, found.participants,
                              NoAgentName, 0),
                _conversations))
    /\ UNCHANGED <<_conversations, conversation, send_call>>
    /\ UNCHANGED <<qvars, wfvars, clvars, cbvars, auxvars, pvars, ovars>>

\* process_message returns to the send_message of a broadcast: the response
\* is appended and the loop goes on
BroadcastReturn ==
    /\ broadcast_call.pc = "awaiting"
    /\ BroadcastStep(BroadcastAdvance(
            [broadcast_call EXCEPT !.responses = @ + 1, !.awaited = NoAgentName],
            _conversations))
    /\ UNCHANGED <<_conversations, conversation, send_call>>
    /\ UNCHANGED <<qvars, wfvars, clvars, cbvars, auxvars, pvars, ovars>>

\* ------------------------------------------------- Workflow.to_dict / from_dict
\* WorkflowStepType and WorkflowStatus members, and their .value
StepTypeMembers == {"TASK", "AGENT_ACTION"}
StepTypeValue(member) ==
    CASE member = "TASK" -> "task"
      [] member = "AGENT_ACTION" -> "agent_action"

\* WorkflowStepType(value): the member with that value
WorkflowStepTypeOf(value) == CHOOSE member \in StepTypeMembers : StepTypeValue(member) = value

StatusMembers == {"PENDING", "COMPLETED"}
StatusValue(member) ==
    CASE member = "PENDING" -> "pending"
      [] member = "COMPLETED" -> "completed"

\* dict.get(key, default) on a dict given as a record
Get(d, key, default) == IF key \in DOMAIN d THEN d[key] ELSE default

\* dicts of config, variables and metadata as sets of (key, value) pairs
EmptyDict == {}

\* a WorkflowStep object: the fields to_dict and from_dict read or write
StepObject(id, name, step_type, config, dependencies, timeout_seconds, metadata, status, error) ==
    [id |-> id, name |-> name, step_type |-> step_type, config |-> config,
     dependencies |-> dependencies, timeout_seconds |-> timeout_seconds,
     metadata |-> metadata, status |-> status, error |-> error]

\* WorkflowStep.to_dict
Step_to_dict(step) ==
    [id |-> step.id, name |-> step.name, step_type |-> StepTypeValue(step.step_type),
     config |-> step.config, dependencies |-> step.dependencies,
     timeout_seconds |-> step.timeout_seconds, status |-> StatusValue(step.status),
     started_at |-> NoTime, completed_at |-> NoTime, error |-> step.error]

\* from_dict, lines 159-170: the WorkflowStep built from one entry of "steps"
Step_from_dict(step_data) ==
    StepObject(Get(step_data, "id", "uuid4"),
               step_data["name"],
               WorkflowStepTypeOf(step_data["step_type"]),
               Get(step_data, "config", EmptyDict),
               Get(step_data, "dependencies", <<>>),
               Get(step_data, "timeout_seconds", NoTime),
               Get(step_data, "metadata", EmptyDict),
               "PENDING", NoneErr)

\* a Workflow object
WorkflowObject(id, name, description, version, status, wsteps, variables, metadata) ==
    [isNone |-> FALSE, id |-> id, name |-> name, description |-> description,
     version |-> version, status |-> status, steps |-> wsteps,
     variables |-> variables, metadata |-> metadata]
NoWorkflow == [isNone |-> TRUE]
NoData == [isNone |-> TRUE]

\* Workflow.to_dict
Workflow_to_dict(w) ==
    [id |-> w.id, name |-> w.name, description |-> w.description, version |-> w.version,
     status |-> StatusValue(w.status),
     steps |-> [i \in 1..Len(w.steps) |-> Step_to_dict(w.steps[i])],
     variables |-> w.variables, created_at |-> 0, started_at |-> NoTime,
     completed_at |-> NoTime]

\* Workflow.from_dict
Workflow_from_dict(d) ==
    LET entries == Get(d, "steps", <<>>) IN
    WorkflowObject(Get(d, "id", "uuid4"),
                   d["name"],
                   Get(d, "description", ""),
                   Get(d, "version", "1.0.0"),
                   "PENDING",
                   [i \in 1..Len(entries) |-> Step_from_dict(entries[i])],
                   Get(d, "variables", EmptyDict),
                   Get(d, "metadata", EmptyDict))

\* the steps a caller builds: with and without metadata, timeout, dependencies
SerialSteps ==
    { StepObject("s1", "build", "TASK", EmptyDict, <<>>, NoTime, m, "PENDING", NoneErr) :
        m \in {EmptyDict, {<<"owner", "dev">>}} }
    \cup
    { StepObject("s2", "review", "AGENT_ACTION", {<<"agent", "x">>}, <<"s1">>, 30, m,
                 "COMPLETED", NoneErr) :
        m \in {EmptyDict, {<<"owner", "qa">>}} }
MaxSerialSteps == 2
SerialWorkflows ==
    { WorkflowObject("w1", "release", "", v, "PENDING", ss, vs, EmptyDict) :
        v \in {"1.0.0", "2.1.0"},
        ss \in SeqsUpTo(SerialSteps, MaxSerialSteps),
        vs \in {EmptyDict, {<<"branch", "main">>}} }

\* no workflow has been serialised
RoundTripIdle ==
    /\ workflow = NoWorkflow
    /\ data = NoData
    /\ restored = NoWorkflow

\* a workflow built by a caller
RoundTripInit ==
    /\ workflow \in SerialWorkflows
    /\ data = NoData
    /\ restored = NoWorkflow

\* data = workflow.to_dict()
ToDict ==
    /\ ~workflow.isNone
    /\ data = NoData
    /\ data' = Workflow_to_dict(workflow)
    /\ UNCHANGED <<workflow, restored, tvars>>
    /\ UNCHANGED <<qvars, wfvars, clvars, cbvars, pvars, ovars, cvars>>

\* restored = Workflow.from_dict(data)
FromDict ==
    /\ data # NoData
    /\ restored = NoWorkflow
    /\ restored' = Workflow_from_dict(data)
    /\ UNCHANGED <<workflow, data, tvars>>
    /\ UNCHANGED <<qvars, wfvars, clvars, cbvars, pvars, ovars, cvars>>

\* ------------------------------------------------------------- TaskTemplate
\* strings as sequences of pieces: a piece is a text or a placeholder ${key}
VarKeys == {"a", "b"}

\* f"${{{key}}}"
Placeholder(key) ==
    CASE key = "a" -> "${a}"
      [] key = "b" -> "${b}"

\* str.replace(placeholder, value) from the i-th piece on
RECURSIVE Replace(_, _, _, _)
Replace(string, placeholder, value, i) ==
    IF i > Len(string) THEN <<>>
    ELSE (IF string[i] = placeholder THEN value ELSE <<string[i]>>)
         \o Replace(string, placeholder, value, i + 1)

\* dicts in insertion order as sequences of (key, value) pairs
DictIndex(d, key) ==
    IF \E i \in 1..Len(d) : d[i][1] = key
    THEN CHOOSE i \in 1..Len(d) : d[i][1] = key
    ELSE 0

\* d[key] = value
DictSet(d, key, value) ==
    IF DictIndex(d, key) = 0
    THEN Append(d, <<key, value>>)
    ELSE [d EXCEPT ![DictIndex(d, key)] = <<key, value>>]

\* {**defaults, **provided}: the keys of provided set one after the other
RECURSIVE DictMerge(_, _, _)
DictMerge(defaults, provided, i) ==
    IF i > Len(provided) THEN defaults
    ELSE DictMerge(DictSet(defaults, provided[i][1], provided[i][2]), provided, i + 1)

\* TaskTemplate._substitute_variables: one replace per key, in the dict's
\* order, each on the result of the one before
RECURSIVE _substitute_variables(_, _, _)
_substitute_variables(string, variables, i) ==
    IF i > Len(variables) THEN string
    ELSE _substitute_variables(
            Replace(string, Placeholder(variables[i][1]), variables[i][2], 1),
            variables, i + 1)

\* TaskTemplate(name, description_template, variables, metadata_template)
TaskTemplate(name, description_template, variables, metadata_template) ==
    [name |-> name, description_template |-> description_template,
     variables |-> variables, metadata_template |-> metadata_template]

\* TaskTemplate.create_task(title, variables): the title, description and
\* metadata of the Task built
create_task(tpl, title, variables) ==
    LET merged_vars == DictMerge(tpl.variables, variables, 1)
        keys == DOMAIN tpl.metadata_template \cup {"template_name", "template_variables"}
    IN [isNone |-> FALSE,
        title |-> title,
        description |-> _substitute_variables(tpl.description_template, merged_vars, 1),
        metadata |-> [key \in keys |->
                        IF key = "template_name" THEN tpl.name
                        ELSE IF key = "template_variables" THEN merged_vars
                        ELSE _substitute_variables(tpl.metadata_template[key],
                                                   merged_vars, 1)]]
NoTask == [isNone |-> TRUE]
NoArgs == [isNone |-> TRUE]

\* templates: descriptions with one, two or repeated placeholders, defaults for
\* none, one or both keys, a metadata template with a placeholder or none
DescriptionTemplates ==
    { <<"Fix ", "${a}", " in ", "${b}">>, <<"${a}", "${a}">>, <<"Build">> }
DefaultVariables ==
    { <<>>, << <<"b", <<"core">>>> >>, << <<"a", <<"bug">>>>, <<"b", <<"core">>>> >> }
MetadataTemplates == { <<>>, [component |-> <<"${b}">>] }
Templates ==
    { TaskTemplate("bugfix", d, v, m) :
        d \in DescriptionTemplates, v \in DefaultVariables, m \in MetadataTemplates }

\* the variables handed to create_task: none, plain texts, and a value that is
\* itself the text of a placeholder
ProvidedVariables ==
    { <<>>,
      << <<"a", <<"leak">>>> >>,
      << <<"b", <<"ui">>>>, <<"a", <<"leak">>>> >>,
      << <<"a", <<"${b}">>>>, <<"b", <<"ui">>>> >> }
Titles == {"t1", "t2"}

\* no template in use
TemplateIdle ==
    /\ template = TaskTemplate("none", <<>>, <<>>, <<>>)
    /\ create_args = NoArgs
    /\ created = NoTask

\* a template nobody has created a task from
TemplateInit ==
    /\ template \in Templates
    /\ create_args = NoArgs
    /\ created = NoTask

\* created = template.create_task(title, variables)
CreateTask(title, variables) ==
    /\ template.name # "none"
    /\ create_args' = [isNone |-> FALSE, title |-> title, variables |-> variables]
    /\ created' = create_task(template, title, variables)
    /\ UNCHANGED <<template, rtvars>>
    /\ UNCHANGED <<qvars, wfvars, clvars, cbvars, pvars, ovars, cvars>>

AuxIdle == RoundTripIdle /\ TemplateIdle

RestIdle == PolicyIdle /\ OrchIdle /\ ConvIdle /\ AuxIdle

vars == <<_tasks, _completed_tasks, now, ret, steps, wf_status, _agents,
          _max_parallel_steps, _running_workflows, _workflow_results, pc,
          completed_steps, step_results, outputs, ready_steps, coros, executions,
          wf_ret, loop_task, _evaluators, _max_iterations, _min_passing_score, run_pc,
          iteration_num, iterations, combined_result, loop_result, runs,
          _correction_handlers, initial_output, current_output, handler_calls,
          evaluation_results, combined, call_config, call_error, call_attempt,
          call_ret, orch_agents, _capability_index, enable_correction_loops,
          _is_running, procs, handle_log, stop_called, _conversations, conversation,
          send_call, broadcast_call, process_calls, workflow, data, restored,
          template, create_args, created>>

\* an engine nobody has handed a workflow to
WfIdle ==
    /\ steps = <<>>
    /\ wf_status = "pending"
    /\ _agents = {}
    /\ _max_parallel_steps = DefaultMaxParallelSteps
    /\ _running_workflows = {}
    /\ _workflow_results = NoWfResult
    /\ pc = "idle"
    /\ completed_steps = {}
    /\ step_results = <<>>
    /\ outputs = {}
    /\ ready_steps = <<>>
    /\ coros = <<>>
    /\ executions = 0
    /\ wf_ret = NoWfRet

Init == QueueInit /\ WfIdle /\ LoopIdle /\ CombineIdle /\ RestIdle

\* the queue driven by submitters of the scheduling tasks
SchedStep ==
    \/ \E task \in SchedTasks : AddTask(task)
    \/ GetNextTask
    \/ \E id \in TaskIds : MarkCompleted(id)
    \/ \E id \in TaskIds, e \in SchedErrors : MarkFailed(id, e, MaxSchedAttempts)
    \/ ProcessRetries
    \/ \E id \in TaskIds, s \in DirectStatuses : UpdateStatus(id, s)
    \/ Tick(MaxSchedTime)

Next == SchedStep

Spec == Init /\ [][Next]_vars

\* the queue driven by submitters of the retrying tasks
RetryStep ==
    \/ \E task \in RetryTasks : AddTask(task)
    \/ GetNextTask
    \/ \E id \in RetryIds : MarkCompleted(id)
    \/ \E id \in RetryIds, e \in RetryErrors : MarkFailed(id, e, MaxTotalAttempts)
    \/ ProcessRetries
    \/ \E id \in RetryIds, s \in DirectStatuses : UpdateStatus(id, s)
    \/ Tick(MaxTime)

RetryNext == RetryStep

RetrySpec == Init /\ [][RetryNext]_vars

\* one engine executing one workflow
WfInitAll == QueueInit /\ WfInit /\ LoopIdle /\ CombineIdle /\ RestIdle

WfStep ==
    \/ ExecuteBegin
    \/ ExecuteLoop
    \/ \E k \in 1..Len(coros) : StepStart(k)
    \/ \E k \in 1..Len(coros), o \in {"ok", "nok", "raised"} : StepFinish(k, o)
    \/ ProcessResults
    \/ ExecuteReturn
    \/ CancelWorkflow
    \/ PauseWorkflow

WfNext == WfStep

WfSpec == WfInitAll /\ [][WfNext]_vars

\* the steps execute and its step coroutines take themselves; the event loop
\* runs every coroutine that can run, and a handler returns or raises
WfExec ==
    \/ ExecuteLoop
    \/ \E k \in 1..Len(coros) : StepStart(k)
    \/ \E k \in 1..Len(coros), o \in {"ok", "nok", "raised"} : StepFinish(k, o)
    \/ ProcessResults
    \/ ExecuteReturn

WfLiveSpec == WfInitAll /\ [][WfNext]_vars /\ WF_vars(WfExec)

\* one correction loop run on one task
LoopInitAll == QueueInit /\ WfIdle /\ LoopInit /\ CombineIdle /\ RestIdle

LoopStep ==
    \/ RunBegin("o1")
    \/ \E results \in [1.._evaluators -> LoopResults] : Iterate(results)
    \/ Exhausted

LoopNext == LoopStep

LoopSpec == LoopInitAll /\ [][LoopNext]_vars

\* run called on outputs with correction handlers registered (lines 84-94) and
\* evaluators that report findings
HandlerInit ==
    /\ loop_task = [status |-> "in_progress", correction_count |-> 0, max_corrections |-> 3]
    /\ _evaluators \in 0..MaxEvaluators
    /\ _max_iterations \in IterationChoices
    /\ _min_passing_score = DefaultMinPassingScore
    /\ run_pc = "idle"
    /\ iteration_num = 0
    /\ iterations = <<>>
    /\ combined_result = NoEvaluation
    /\ loop_result = NoLoopResult
    /\ runs = 0
    /\ _correction_handlers \in HandlerChoices
    /\ initial_output = NoOutput
    /\ current_output = NoOutput
    /\ handler_calls = 0

HandlerInitAll == QueueInit /\ WfIdle /\ HandlerInit /\ CombineIdle /\ RestIdle

HandlerNext ==
    \/ \E output \in LoopOutputs : RunBegin(output)
    \/ \E results \in [1.._evaluators -> FindingResults] : Iterate(results)
    \/ Exhausted

HandlerSpec == HandlerInitAll /\ [][HandlerNext]_vars

\* _combine_results applied to one list of results
CombineInitAll == QueueInit /\ WfIdle /\ LoopIdle /\ CombineInit /\ RestIdle

CombineNext == Combine

CombineSpec == CombineInitAll /\ [][CombineNext]_vars

\* the methods of one RetryConfig called on one set of arguments
PolicyInitAll ==
    /\ QueueInit /\ WfIdle /\ LoopIdle /\ CombineIdle /\ PolicyInit /\ OrchIdle /\ ConvIdle
    /\ AuxIdle

PolicyNext ==
    \/ ShouldRetryCall
    \/ CalculateDelayCall

PolicySpec == PolicyInitAll /\ [][PolicyNext]_vars

\* the registry: agents registered and unregistered in any order
RegistryInitAll ==
    /\ QueueInit /\ WfIdle /\ LoopIdle /\ CombineIdle /\ PolicyIdle /\ OrchIdle /\ ConvIdle
    /\ AuxIdle
RegistryNext ==
    \/ \E agent \in AgentPool : RegisterAgent(agent)
    \/ \E agent_name \in AgentNames : UnregisterAgent(agent_name)
RegistrySpec == RegistryInitAll /\ [][RegistryNext]_vars

\* run_task_loop coroutines draining the queue while tasks are submitted
OrchInitAll ==
    /\ QueueInit /\ WfIdle /\ LoopIdle /\ CombineIdle /\ PolicyIdle /\ OrchInit /\ ConvIdle
    /\ AuxIdle
DrainNext ==
    \/ \E task \in OrchTasks : SubmitTask(task)
    \/ \E loop \in Loops : RunTaskLoop(loop)
    \/ \E loop \in Loops, response \in Responses : LoopHandleReturn(loop, response)
    \/ Stop
HandlersReturn ==
    \A loop \in Loops : WF_vars(\E response \in Responses : LoopHandleReturn(loop, response))
DrainSpec == OrchInitAll /\ [][DrainNext]_vars /\ HandlersReturn

\* the task loops next to runs of the orchestrator's correction loop, the
\* default loop of CorrectionLoopFactory
DefaultLoopNext ==
    \/ DrainNext
    \/ RunBegin("o1")
    \/ \E results \in [1.._evaluators -> LoopResults] : Iterate(results)
DefaultLoopSpec == OrchInitAll /\ [][DefaultLoopNext]_vars

\* the same with callers of process_task alongside the loops
OrchNext ==
    \/ DrainNext
    \/ \E caller \in Callers, task_id \in TaskIds : ProcessTask(caller, task_id)
    \/ \E caller \in Callers, response \in Responses : ProcessTaskReturn(caller, response)
OrchSpec == OrchInitAll /\ [][OrchNext]_vars

\* a Conversation object of a caller: turns added up to the cap and beyond
TurnInitAll ==
    /\ QueueInit /\ WfIdle /\ LoopIdle /\ CombineIdle /\ PolicyIdle /\ OrchIdle /\ ConvIdle
    /\ AuxIdle
TurnNext ==
    \/ \E max_turns \in MaxTurnsChoices : NewConversation(max_turns)
    \/ \E speaker \in AgentNames : AddTurn(speaker)
    \/ CompleteConversation
TurnSpec == TurnInitAll /\ [][TurnNext]_vars

\* the orchestrator's conversations: messages sent and broadcast while
\* conversations end and agents leave
ConvInitAll ==
    /\ QueueInit /\ WfIdle /\ LoopIdle /\ CombineIdle /\ PolicyIdle /\ ConvIdle
    /\ OrchInit /\ enable_correction_loops = TRUE
    /\ AuxIdle
ConvNext ==
    \/ \E c \in ConvIds, names \in ParticipantLists : CreateConversation(c, names)
    \/ \E c \in ConvIds : EndConversation(c)
    \/ \E c \in ConvIds \cup {UnknownConvId}, sender \in AgentNames, recipient \in AgentNames :
          SendMessage(c, sender, recipient)
    \/ SendReturn
    \/ \E c \in ConvIds \cup {UnknownConvId}, sender \in AgentNames : BroadcastMessage(c, sender)
    \/ BroadcastReturn
    \/ \E agent_name \in AgentNames : UnregisterAgent(agent_name)
ConvSpec == ConvInitAll /\ [][ConvNext]_vars

\* one workflow serialised with to_dict and rebuilt with from_dict
RoundTripInitAll ==
    /\ QueueInit /\ WfIdle /\ LoopIdle /\ CombineIdle /\ PolicyIdle /\ OrchIdle /\ ConvIdle
    /\ RoundTripInit /\ TemplateIdle
RoundTripNext ==
    \/ ToDict
    \/ FromDict
RoundTripSpec == RoundTripInitAll /\ [][RoundTripNext]_vars

\* tasks created from one template
TemplateInitAll ==
    /\ QueueInit /\ WfIdle /\ LoopIdle /\ CombineIdle /\ PolicyIdle /\ OrchIdle /\ ConvIdle
    /\ RoundTripIdle /\ TemplateInit
TemplateNext ==
    \E title \in Titles, variables \in ProvidedVariables : CreateTask(title, variables)
TemplateSpec == TemplateInitAll /\ [][TemplateNext]_vars


\* ================================================================ claims
\* the task the last get_next_task returned
Returned == _tasks[IndexOf(_tasks, ret.id)]

\* the queue holds exactly the tasks A (low), B (critical, deps [A]) and
\* C (high), those in done completed and the others pending
ExampleState(done) ==
    /\ Len(_tasks) = 3
    /\ \A i \in 1..Len(_tasks) :
          /\ \E t \in {TaskA, TaskB, TaskC} :
                /\ _tasks[i].id = t.id
                /\ _tasks[i].priority = t.priority
                /\ _tasks[i].dependencies = t.dependencies
          /\ _tasks[i].status = IF _tasks[i].id \in done THEN "completed" ELSE "pending"
    /\ _completed_tasks = done

\* C1: a task returned by get_next_task is pending and all its dependencies are
\* in the completed set; with A (low), B (critical, deps [A]) and C (high),
\* pulling and completing yields C, then A, then B.
C1_DependencyRespect ==
    (ret.op = "get_next_task") =>
        /\ ret.id # NoId =>
              /\ Returned.status = "pending"
              /\ \A dep \in Returned.dependencies : dep \in _completed_tasks
        /\ ExampleState({}) => ret.id = "C"
        /\ ExampleState({"C"}) => ret.id = "A"
        /\ ExampleState({"C", "A"}) => ret.id = "B"

C1_Witness == ret.op = "get_next_task" /\ ExampleState({"C", "A"}) /\ ret.id = "B"

\* the ready set: pending tasks whose dependencies are all completed
ReadySet ==
    { i \in 1..Len(_tasks) :
        /\ _tasks[i].status = "pending"
        /\ _tasks[i].dependencies \subseteq _completed_tasks }

\* critical > high > medium > low
Rank(p) == CASE p = "critical" -> 4 [] p = "high" -> 3 [] p = "medium" -> 2 [] p = "low" -> 1

\* C2: get_next_task returns none when the ready set is empty, and otherwise a
\* ready task of the highest priority present in the ready set, with the
\* earliest created_at among the ready tasks of that priority.
C2_PriorityOrder ==
    (ret.op = "get_next_task") =>
        IF ReadySet = {} THEN ret.id = NoId
        ELSE /\ ret.id # NoId
             /\ IndexOf(_tasks, ret.id) \in ReadySet
             /\ \A j \in ReadySet :
                   /\ Rank(Returned.priority) >= Rank(_tasks[j].priority)
                   /\ Rank(Returned.priority) = Rank(_tasks[j].priority)
                        => Returned.created_at <= _tasks[j].created_at

\* two ready tasks of the top priority, the later-created one first in the dict
C2_Witness ==
    /\ ret.op = "get_next_task" /\ ret.id # NoId
    /\ \E j \in ReadySet :
          /\ _tasks[j].priority = Returned.priority
          /\ _tasks[j].created_at > Returned.created_at
          /\ j < IndexOf(_tasks, ret.id)

\* this step is a mark_failed call on the task at dict position i
FailedStep(i) ==
    /\ ret'.op = "mark_failed"
    /\ Len(_tasks') = Len(_tasks)
    /\ i \in 1..Len(_tasks)
    /\ _tasks'[i] # _tasks[i]

\* C3: mark_failed increments the attempt; with attempt < max_retries and a
\* retryable error it schedules next_retry_at = now + delay(attempt), sets
\* retrying and returns true; otherwise it sets failed, stores a failed
\* TaskResult carrying the retry state, leaves next_retry_at alone and returns
\* false.
C3_MarkFailed ==
    [][\A i \in 1..Len(_tasks) : FailedStep(i) =>
          LET t == _tasks[i]
              u == _tasks'[i]
              n == t.retry_state.attempt + 1
          IN  /\ u.retry_state.attempt = n
              /\ IF n < t.retry_config.max_retries
                    /\ should_retry(t.retry_config, u.retry_state.last_error)
                 THEN /\ u.retry_state.next_retry_at
                            = now + calculate_delay(t.retry_config, n)
                      /\ u.status = "retrying"
                      /\ ret'.ok
                 ELSE /\ u.status = "failed"
                      /\ ~u.result.isNone
                      /\ ~u.result.success
                      /\ u.result.retry_attempt = n
                      /\ u.retry_state.next_retry_at = t.retry_state.next_retry_at
                      /\ ~ret'.ok]_vars

\* a non-retryable error failed a task that had attempts left
C3_Witness ==
    /\ ret.op = "mark_failed" /\ ~ret.ok
    /\ \E i \in 1..Len(_tasks) :
          /\ _tasks[i].status = "failed"
          /\ _tasks[i].retry_config.strategy # "none"
          /\ _tasks[i].retry_state.attempt < _tasks[i].retry_config.max_retries
          /\ _tasks[i].result.retry_attempt = _tasks[i].retry_state.attempt

\* the n-th failure of a task configured EXPONENTIAL, base 1, max_retries 3,
\* max_delay 10 is scheduled with the given delay
ScheduledWith(i, delay) ==
    /\ _tasks'[i].status = "retrying"
    /\ _tasks'[i].retry_state.next_retry_at = now + delay

FailsForGood(i) ==
    /\ _tasks'[i].status = "failed"
    /\ _tasks'[i].retry_state.next_retry_at = _tasks[i].retry_state.next_retry_at

\* C4 as stated: the first three mark_failed calls schedule retries with delays
\* 1, 2 and 4, and only the fourth fails the task.
C4_Original ==
    [][\A i \in 1..Len(_tasks) :
          (FailedStep(i) /\ _tasks[i].retry_config = ExpConfig) =>
              LET n == _tasks'[i].retry_state.attempt IN
              /\ n = 1 => ScheduledWith(i, 1)
              /\ n = 2 => ScheduledWith(i, 2)
              /\ n = 3 => ScheduledWith(i, 4)
              /\ n = 4 => FailsForGood(i)]_vars

\* C4 amended: the first two mark_failed calls schedule retries with delays 1
\* and 2, and the third (attempt = max_retries) fails the task without
\* scheduling a new next_retry_at.
C4_Backoff ==
    [][\A i \in 1..Len(_tasks) :
          (FailedStep(i) /\ _tasks[i].retry_config = ExpConfig) =>
              LET n == _tasks'[i].retry_state.attempt IN
              /\ n = 1 => ScheduledWith(i, 1)
              /\ n = 2 => ScheduledWith(i, 2)
              /\ n >= 3 => FailsForGood(i)]_vars

\* the third failure of the exponential task has failed it
C4_Witness ==
    /\ ret.op = "mark_failed" /\ ~ret.ok
    /\ \E i \in 1..Len(_tasks) :
          /\ _tasks[i].retry_config = ExpConfig
          /\ _tasks[i].retry_state.attempt = 3
          /\ _tasks[i].status = "failed"
          /\ _tasks[i].retry_state.next_retry_at # NoTime

\* C5: a task whose status is not failed has attempt <= max_retries.
C5_RetryBound ==
    \A i \in 1..Len(_tasks) :
        _tasks[i].status # "failed"
            => _tasks[i].retry_state.attempt <= _tasks[i].retry_config.max_retries

\* C6: a task waiting in retrying with next_retry_at = t becomes pending again
\* only through process_retries and only when now >= t (add_task replacing the
\* task by a new one, which resets the attempt counter, is a different task).
C6_RetryNotBefore ==
    [][\A i \in 1..Len(_tasks) :
          ( /\ _tasks[i].status = "retrying"
            /\ Len(_tasks') = Len(_tasks)
            /\ _tasks'[i].status = "pending"
            /\ _tasks'[i].retry_state.attempt = _tasks[i].retry_state.attempt )
          => /\ ret'.op = "process_retries"
             /\ now >= _tasks[i].retry_state.next_retry_at
             /\ \E k \in 1..Len(ret'.ids) : ret'.ids[k] = _tasks[i].id]_vars

\* process_retries has released a task whose delay was not zero
C6_Witness ==
    /\ ret.op = "process_retries"
    /\ \E k \in 1..Len(ret.ids) :
          LET t == _tasks[IndexOf(_tasks, ret.ids[k])] IN
          /\ t.status = "pending"
          /\ t.retry_config.strategy \in {"linear", "exponential"}
          /\ t.retry_state.attempt >= 1

\* C7: mark_failed and process_retries never move a cancelled task to retrying
\* or pending.
C7_CancelledNeverRetries ==
    [][\A i \in 1..Len(_tasks) :
          ( /\ _tasks[i].status = "cancelled"
            /\ ret'.op \in {"mark_failed", "process_retries"}
            /\ Len(_tasks') = Len(_tasks) )
          => _tasks'[i].status \notin {"retrying", "pending"}]_vars

\* C8: once a task is completed, failed or cancelled, no operation on it
\* changes its status (add_task putting a new task under the same id aside).
C8_TerminalIsFinal ==
    [][\A i \in 1..Len(_tasks) :
          ( /\ is_terminal(_tasks[i])
            /\ Len(_tasks') = Len(_tasks)
            /\ _tasks'[i] \notin (SchedTasks \cup RetryTasks) )
          => _tasks'[i].status = _tasks[i].status]_vars

\* the step with the given id has status completed
StepCompleted(id) ==
    \E j \in 1..Len(steps) : steps[j].id = id /\ steps[j].status = "completed"

\* C9: a step is set running only when every step in its dependencies has
\* been marked completed in this execution; in the feature-development
\* workflow documentation starts only after testing and security_review
\* have completed.
C9_StepAfterDependencies ==
    [][\A i \in 1..Len(steps) :
          (steps[i].status # "running" /\ steps'[i].status = "running") =>
              /\ \A dep \in steps[i].dependencies :
                    dep \in completed_steps /\ StepCompleted(dep)
              /\ steps[i].id = "documentation" =>
                    StepCompleted("testing") /\ StepCompleted("security_review")]_vars

\* documentation is running
C9_Witness ==
    \E i \in 1..Len(steps) : steps[i].id = "documentation" /\ steps[i].status = "running"

\* C10: when execute has returned, every step is completed, failed or pending,
\* none is running, and a step is pending only if one of its dependencies was
\* not completed in this execution.
C10_NoStepLeftRunning ==
    (pc = "done") =>
        \A i \in 1..Len(steps) :
            /\ steps[i].status \in {"completed", "failed", "pending"}
            /\ steps[i].status = "pending"
                  => \E dep \in steps[i].dependencies : dep \notin completed_steps

\* execute has returned from a workflow with completed, failed and blocked steps
C10_Witness ==
    /\ pc = "done"
    /\ \E i, j, k \in 1..Len(steps) :
          /\ steps[i].status = "completed"
          /\ steps[j].status = "failed"
          /\ steps[k].status = "pending"

\* the ids a set of step ids depends on, following dependencies n levels down
RECURSIVE DepClosure(_, _)
DepClosure(ids, n) ==
    IF n = 0 THEN ids
    ELSE DepClosure(ids \cup UNION { steps[j].dependencies :
                                        j \in { m \in 1..Len(steps) : steps[m].id \in ids } },
                    n - 1)

\* the ids step i depends on, directly or transitively
TransitiveDeps(i) == DepClosure(steps[i].dependencies, Len(steps))

\* step i is pending and depends, directly or transitively, on a failed step
BehindFailure(i) ==
    /\ steps[i].status = "pending"
    /\ \E j \in 1..Len(steps) :
          steps[j].status = "failed" /\ steps[j].id \in TransitiveDeps(i)

\* C11: a pending step that depends directly or transitively on a failed step
\* is never dispatched and never marked failed (it stays pending), and the
\* execute call returns success = false, status failed and the error message
\* 'Workflow blocked: steps failed: [names of the failed steps]'.
C11_BlockedByFailure ==
    [][\A i \in 1..Len(steps) : BehindFailure(i) =>
          /\ steps'[i].status = "pending"
          /\ (pc # "done" /\ pc' = "done") =>
                /\ ~_workflow_results'.isNone
                /\ ~_workflow_results'.success
                /\ _workflow_results'.status = "failed"
                /\ wf_status' = "failed"
                /\ _workflow_results'.error_kind = "Workflow blocked: steps failed"
                /\ _workflow_results'.error_names = NamesWithStatus(steps, "failed", 1)]_vars

\* development failed in the feature-development workflow: testing,
\* security_review and documentation are left pending behind it
C11_Witness ==
    /\ pc = "done"
    /\ ~_workflow_results.success
    /\ _workflow_results.error_kind = "Workflow blocked: steps failed"
    /\ _workflow_results.error_names = <<"development">>
    /\ \E i \in 1..Len(steps) : steps[i].id = "development" /\ steps[i].status = "failed"
    /\ \A i \in 1..Len(steps) :
          steps[i].id \in {"testing", "security_review", "documentation"}
              => BehindFailure(i)
    /\ \E i \in 1..Len(steps) : steps[i].id = "documentation" /\ BehindFailure(i)

\* the entry step_results holds for the step id, as a set (one entry at most)
EntriesOf(results, id) ==
    { results[k].entry : k \in { m \in 1..Len(results) : results[m].id = id } }

\* the k-th gathered coroutine raised
Raised(k) == pc = "gather" /\ k \in 1..Len(coros) /\ coros[k] = "raised"

C13_Finalize ==
    (pc = "done") =>
        /\ ~_workflow_results.isNone
        /\ _workflow_results.status = wf_status
        /\ IF \E i \in 1..Len(steps) : steps[i].status = "failed"
           THEN wf_status = "failed" /\ ~_workflow_results.success
           ELSE wf_status = "completed" /\ _workflow_results.success

\* execute has returned failed through the break: a step failed, none is
\* pending, and a cancel_workflow call had set the status in between
C13_Witness ==
    /\ pc = "done"
    /\ _workflow_results.error_kind = "Steps failed"
    /\ wf_status = "failed"
    /\ ~_workflow_results.success
    /\ \A i \in 1..Len(steps) : steps[i].status \in {"completed", "failed"}
    /\ wf_ret = [op |-> "cancel_workflow", ok |-> TRUE]

\* the dependencies of step i cannot be met by any execution: they reach a
\* step id the workflow does not hold, or a step that depends on itself
DependencyError(i) ==
    \/ \E dep \in TransitiveDeps(i) : \A j \in 1..Len(steps) : steps[j].id # dep
    \/ steps[i].id \in TransitiveDeps(i)
    \/ \E j \in 1..Len(steps) :
          steps[j].id \in TransitiveDeps(i) /\ steps[j].id \in TransitiveDeps(j)

\* C14: execute does not report success = true for a workflow whose
\* dependencies contain a cycle or name a step id that is not in the workflow
\* while the steps blocked by it are still pending.
C14_DependencyErrorReported ==
    (pc = "done" /\ \E i \in 1..Len(steps) :
                        steps[i].status = "pending" /\ DependencyError(i))
        => ~_workflow_results.success

\* the positions of the steps with status running
RunningSteps == { i \in 1..Len(steps) : steps[i].status = "running" }

C16_CancelStopsWorkflow ==
    /\ [][(wf_status = "cancelled" /\ "W" \in _running_workflows) =>
             /\ ~(pc = "loop" /\ pc' = "gather" /\ coros' # <<>>)
             /\ (pc' = "done") => wf_status' = "cancelled"]_vars
    /\ [][(wf_ret' # wf_ret /\ wf_ret' = [op |-> "cancel_workflow", ok |-> FALSE]) =>
             /\ "W" \notin _running_workflows
             /\ UNCHANGED <<steps, wf_status, _running_workflows, _workflow_results>>]_vars

\* C17: correction_count <= max_corrections in every reachable state, for every
\* task, every max_iterations and every number of runs of the loop on the task.
C17_CorrectionBound == loop_task.correction_count <= loop_task.max_corrections

\* the number of iterations of this run in which a correction was applied
RECURSIVE CorrectionsApplied(_, _)
CorrectionsApplied(its, i) ==
    IF i > Len(its) THEN 0
    ELSE (IF its[i].correction_applied THEN 1 ELSE 0) + CorrectionsApplied(its, i + 1)

\* every iteration of this run was not passing and needed correction
AllNeededCorrection == CorrectionsApplied(iterations, 1) = Len(iterations)

\* C18: a run in which every iteration's combined evaluation is not passing
\* and needs correction performs exactly max_iterations iterations, never
\* more, and returns success = false, status max_iterations_reached,
\* total_iterations = max_iterations; the task's status becomes failed and its
\* correction_count has grown by one per iteration, max_iterations in all
\* (from 0 to 3 in the first run with max_iterations = 3).
C18_Exhaustion ==
    /\ [](Len(iterations) <= _max_iterations)
    /\ []((run_pc = "returned" /\ AllNeededCorrection) =>
             /\ Len(iterations) = _max_iterations
             /\ ~loop_result.success
             /\ loop_result.status = "max_iterations_reached"
             /\ loop_result.total_iterations = _max_iterations
             /\ loop_task.status = "failed"
             /\ runs = 1 => loop_task.correction_count = _max_iterations)
    /\ [][(run_pc = "loop") =>
             loop_task'.correction_count - CorrectionsApplied(iterations', 1)
                = loop_task.correction_count - CorrectionsApplied(iterations, 1)]_vars

\* the default loop has exhausted its three iterations on a fresh task
C18_Witness ==
    /\ run_pc = "returned"
    /\ _max_iterations = 3
    /\ _min_passing_score = 80
    /\ runs = 1
    /\ loop_result.status = "max_iterations_reached"
    /\ loop_result.total_iterations = 3
    /\ loop_task.correction_count = 3
    /\ loop_task.status = "failed"
    /\ combined_result = EvaluationResult(FALSE, Score(50), <<>>, TRUE, <<>>)

\* C19: an iteration whose combined result has passed = true and score >=
\* min_passing_score stops the run with status completed and success = true;
\* otherwise, if the combined needs_correction is false, it stops the run
\* with status completed and success = the combined passed flag; only
\* otherwise is a correction applied and the next iteration entered.
\* total_iterations is the 1-based number of the iteration that stopped.
C19_IterationOutcome ==
    [][(Len(iterations') = Len(iterations) + 1) =>
          LET c == combined_result'
              stopped(success) ==
                  /\ run_pc' = "returned"
                  /\ loop_result'.status = "completed"
                  /\ loop_result'.success = success
                  /\ loop_result'.total_iterations = iteration_num + 1
                  /\ loop_result'.total_iterations = Len(iterations')
                  /\ ~iterations'[Len(iterations')].correction_applied
                  /\ loop_task' = loop_task
          IN IF c.passed /\ c.score.num >= _min_passing_score * c.score.den
             THEN stopped(TRUE)
             ELSE IF ~c.needs_correction
             THEN stopped(c.passed)
             ELSE /\ run_pc' = "loop"
                  /\ iteration_num' = iteration_num + 1
                  /\ iterations'[Len(iterations')].correction_applied
                  /\ loop_task'.correction_count = loop_task.correction_count + 1
                  /\ loop_task'.status = "needs_correction"
                  /\ loop_result' = loop_result]_vars

\* the second iteration stopped the run on a result that passed below the
\* score threshold and asked for no correction
C19_Witness ==
    /\ run_pc = "returned"
    /\ loop_result.status = "completed"
    /\ loop_result.success
    /\ loop_result.total_iterations = 2
    /\ combined_result.passed
    /\ ~ScoreAtLeast(combined_result.score, _min_passing_score)
    /\ ~combined_result.needs_correction

\* the sum of the scores of the first n results
RECURSIVE ScoreTotal(_, _)
ScoreTotal(results, n) ==
    IF n = 0 THEN 0 ELSE ScoreTotal(results, n - 1) + results[n].score.num

\* the field's lists of the first n results, one after the other
RECURSIVE Concatenation(_, _, _)
Concatenation(results, field, n) ==
    IF n = 0 THEN <<>> ELSE Concatenation(results, field, n - 1) \o results[n][field]

\* C20: for a non-empty list of evaluator results the combined result has
\* passed = AND of the passed flags, score = the arithmetic mean of the scores,
\* needs_correction = OR of the needs_correction flags, and findings and
\* suggestions = the concatenation of the lists in evaluator order.
C20_CombineLaw ==
    (combined # NoEvaluation /\ Len(evaluation_results) >= 1) =>
        LET R == evaluation_results
            n == Len(evaluation_results)
        IN /\ combined.passed = (\A i \in 1..n : R[i].passed)
           /\ combined.score.den > 0
           /\ combined.score.num * n = ScoreTotal(R, n) * combined.score.den
           /\ combined.needs_correction = (\E i \in 1..n : R[i].needs_correction)
           /\ combined.findings = Concatenation(R, "findings", n)
           /\ combined.correction_suggestions = Concatenation(R, "correction_suggestions", n)

\* two results that differ in every field have been combined
C20_Witness ==
    /\ Len(evaluation_results) = 2
    /\ ~combined.passed
    /\ combined.needs_correction
    /\ combined.score = [num |-> 150, den |-> 2]
    /\ combined.findings = <<"f2", "f1", "f1">>
    /\ combined.correction_suggestions = <<"s1">>
    /\ evaluation_results[1].passed /\ ~evaluation_results[1].needs_correction
    /\ ~evaluation_results[2].passed /\ evaluation_results[2].needs_correction

\* the pattern occurs in the error text, both lowered; an absent error message
\* has no text for a pattern to occur in
OccursIn(pattern, err) ==
    /\ ~err.isNone
    /\ \E k \in 0..(Len(err.text) - Len(pattern)) :
          \A j \in 1..Len(pattern) : LowerChar(err.text[k + j]) = LowerChar(pattern[j])

\* C29: should_retry(error) is false for strategy none whatever the error;
\* otherwise it is true when retry_on_errors is empty, and with a non-empty
\* retry_on_errors it is true iff at least one configured substring occurs in
\* the error text, compared case-insensitively.
C29_RetryablePredicate ==
    (call_ret.op = "should_retry") =>
        call_ret.flag =
            IF call_config.strategy = "none" THEN FALSE
            ELSE IF call_config.retry_on_errors = <<>> THEN TRUE
            ELSE \E i \in 1..Len(call_config.retry_on_errors) :
                    OccursIn(call_config.retry_on_errors[i], call_error)

\* base * 2^(n-1), by repeated doubling
RECURSIVE Doubled(_, _)
Doubled(base, n) == IF n <= 1 THEN base ELSE Doubled(base + base, n - 1)

\* the delay the policy prescribes for the 1-based attempt
PrescribedDelay(config, attempt) ==
    CASE config.strategy \in {"none", "immediate"} -> 0
      [] config.strategy = "linear" ->
            Min(config.base_delay_seconds * attempt, config.max_delay_seconds)
      [] config.strategy = "exponential" ->
            Min(Doubled(config.base_delay_seconds, attempt), config.max_delay_seconds)

\* C30: calculate_delay(attempt) for attempt >= 1 is 0 for none and immediate,
\* min(base * attempt, max_delay) for linear and min(base * 2^(attempt-1),
\* max_delay) for exponential; for linear and exponential the delay of the
\* next attempt is not smaller, and the delay never exceeds max_delay.
C30_DelayLaw ==
    (call_ret.op = "calculate_delay") =>
        /\ call_ret.delay = PrescribedDelay(call_config, call_attempt)
        /\ call_ret.delay <= call_config.max_delay_seconds
        /\ call_config.strategy \in {"linear", "exponential"} =>
              calculate_delay(call_config, call_attempt + 1) >= call_ret.delay

\* an exponential delay of 2 * 2^3 has been clamped to max_delay 10
C30_Witness ==
    /\ call_ret.op = "calculate_delay"
    /\ call_config.strategy = "exponential"
    /\ call_config.base_delay_seconds = 2
    /\ call_config.max_delay_seconds = 10
    /\ call_attempt = 4
    /\ call_ret.delay = 10

\* a registered agent has one of the capabilities required for the task type
\* and can handle the type
SuitableAgentExists(task_type) ==
    \E i \in 1..Len(orch_agents) :
        /\ can_handle(orch_agents[i], task_type)
        /\ \E k \in 1..Len(_task_type_mapping(task_type)) :
              HasCapability(orch_agents[i], _task_type_mapping(task_type)[k])

\* the loop returns in this step
LoopReturns(loop) == procs[loop].pc # "returned" /\ procs'[loop].pc = "returned"

\* a task of the queue is pending with all its dependencies completed
SomeTaskReady(tasks, completed) ==
    \E i \in 1..Len(tasks) :
        tasks[i].status = "pending" /\ tasks[i].dependencies \subseteq completed

\* C21: run_task_loop drains the queue: provided agent handlers return, the
\* loop eventually returns; if stop() was not called it returns only when no
\* task of the queue is pending with all its dependencies completed; and every
\* task it pulled is then completed (and in the completed set) or failed.
C21_LoopDrains ==
    /\ \A loop \in Loops : (procs[loop].pc = "handling") ~> (procs[loop].pc = "returned")
    /\ [][\A loop \in Loops :
            LoopReturns(loop) =>
                /\ ~stop_called' => ~SomeTaskReady(_tasks', _completed_tasks')
                /\ \A id \in procs'[loop].pulled :
                      LET t == _tasks'[IndexOf(_tasks', id)] IN
                      \/ t.status = "completed" /\ id \in _completed_tasks'
                      \/ t.status = "failed"]_vars

\* a loop has returned, never stopped, after pulling A and B: A completed by
\* its agent, B failed for want of an agent
C21_Witness ==
    /\ procs["L1"].pc = "returned"
    /\ ~stop_called
    /\ procs["L1"].pulled = {"A", "B"}
    /\ IndexOf(_tasks, "A") # 0 /\ _tasks[IndexOf(_tasks, "A")].status = "completed"
    /\ IndexOf(_tasks, "B") # 0 /\ _tasks[IndexOf(_tasks, "B")].status = "failed"
    /\ "A" \in _completed_tasks

\* C22: when the agent's handling of a task pulled by run_task_loop reports
\* failure, the failure goes through mark_failed: the task's retry attempt is
\* incremented, and the task is retrying if attempts remain and the error is
\* retryable, failed only otherwise.
C22_FailureThroughMarkFailed ==
    \A i \in 1..Len(_tasks) :
        (/\ ~_tasks[i].result.isNone
         /\ ~_tasks[i].result.success
         /\ _tasks[i].assigned_agent # NoAgentName) =>
            /\ _tasks[i].retry_state.attempt >= 1
            /\ _tasks[i].status =
                  IF can_retry(_tasks[i].retry_state, _tasks[i].retry_config)
                  THEN "retrying" ELSE "failed"

\* C23: under any interleaving of run_task_loop and process_task invocations
\* on one orchestrator, at most one handle_task invocation per (agent, task)
\* pair is in flight, and no task is passed to handle_task by two invocations.
C23_SingleDispatch ==
    /\ \A p, q \in Invocations :
          (p # q /\ procs[p].pc = "handling" /\ procs[q].pc = "handling") =>
              <<procs[p].agent, procs[p].task>> # <<procs[q].agent, procs[q].task>>
    /\ \A e, f \in handle_log : e[3] = f[3] => e[1] = f[1]

\* a direct process_task call is made in this step
ProcessTaskCalled(caller) == procs[caller].pc = "idle" /\ procs'[caller].pc # "idle"

\* C24: process_task on a task for whose type no registered agent is suitable
\* returns at once a TaskResult with success false and the 'No suitable agent'
\* error, invokes no handle_task, and leaves the task (status, assigned_agent,
\* retry state) and the queue as they were.
C24_NoSuitableAgent ==
    [][\A caller \in Callers :
          (/\ ProcessTaskCalled(caller)
           /\ ~SuitableAgentExists(_tasks[IndexOf(_tasks, procs'[caller].task)].task_type)) =>
              /\ procs'[caller].pc = "returned"
              /\ procs'[caller].result.success = FALSE
              /\ procs'[caller].result.error_message =
                    Msg(<<"No suitable agent found for task type">>)
              /\ handle_log' = handle_log
              /\ _tasks' = _tasks
              /\ _completed_tasks' = _completed_tasks]_vars

\* process_task has returned the routing error for the code_review task C,
\* the only registered agent having a required capability but not handling
\* the type; the task is still pending and unassigned
C24_Witness ==
    /\ procs["P1"].pc = "returned"
    /\ procs["P1"].task = "C"
    /\ procs["P1"].result.error_message = NoSuitableAgent
    /\ orch_agents = <<PMAgent("y")>>
    /\ handle_log = {}
    /\ _tasks[IndexOf(_tasks, "C")].status = "pending"
    /\ _tasks[IndexOf(_tasks, "C")].assigned_agent = NoAgentName

\* the elements of a list without the repetitions, first occurrences kept
RECURSIVE WithoutRepeats(_, _)
WithoutRepeats(list, i) ==
    IF i > Len(list) THEN <<>>
    ELSE (IF \E j \in 1..(i - 1) : list[j] = list[i] THEN <<>> ELSE <<list[i]>>)
         \o WithoutRepeats(list, i + 1)

\* the registered agents having the capability, in registration order
RegisteredUnder(capability) ==
    SelectSeq(orch_agents, LAMBDA agent : HasCapability(agent, capability))

\* the agents of the capabilities from the k-th on, capability after capability
RECURSIVE UnderCapabilities(_, _)
UnderCapabilities(required, k) ==
    IF k > Len(required) THEN <<>>
    ELSE RegisteredUnder(required[k]) \o UnderCapabilities(required, k + 1)

\* C25: after any sequence of register_agent / unregister_agent calls,
\* get_agents_by_capability(c) lists the currently registered agents under c
\* in registration order, and find_agents_for_task returns the agents of the
\* task type's required capabilities, in capability-then-registration order,
\* without duplicates and filtered by can_handle (process_task takes the first).
C25_RegistrationOrder ==
    /\ \A c \in AgentCapability : get_agents_by_capability(Reg, c) = RegisteredUnder(c)
    /\ \A task_type \in TaskType :
          find_agents_for_task(Reg, task_type) =
              WithoutRepeats(
                  SelectSeq(UnderCapabilities(_task_type_mapping(task_type), 1),
                            LAMBDA agent : can_handle(agent, task_type)), 1)

\* C26: a conversation never holds more turns than max_turns, in every
\* reachable state and for every sequence of add_turn calls; the add_turn
\* that reaches max_turns sets the status to completed.
C26_TurnCap ==
    ~conversation.isNone =>
        /\ Len(conversation.turns) <= conversation.max_turns
        /\ Len(conversation.turns) >= conversation.max_turns =>
              conversation.status = "completed"

\* a send_message call is made in this step
SendCalled == send_call.pc # "awaiting" /\ send_call' # send_call

\* a broadcast_message call is made in this step
BroadcastCalled == broadcast_call.pc # "awaiting" /\ broadcast_call' # broadcast_call

\* the id names no conversation, or one that is not active
UnknownOrInactive(conversation_id) ==
    \/ conversation_id \notin DOMAIN _conversations
    \/ _conversations[conversation_id].status # "active"

\* no registered agent bears the name
Unregistered(name) == \A i \in 1..Len(orch_agents) : orch_agents[i].name # name

\* C27: send_message returns none without invoking any process_message when
\* the conversation is unknown, when it is not active, or when the recipient is
\* not a registered agent; broadcast_message on an unknown or inactive
\* conversation returns an empty list and invokes no agent.
C27_RejectedSend ==
    [][/\ (/\ SendCalled
           /\ \/ UnknownOrInactive(send_call'.conversation_id)
              \/ Unregistered(send_call'.recipient)) =>
              /\ send_call'.pc = "returned"
              /\ send_call'.ret = "none"
              /\ process_calls' = process_calls
       /\ (BroadcastCalled /\ UnknownOrInactive(broadcast_call'.conversation_id)) =>
              /\ broadcast_call'.pc = "returned"
              /\ broadcast_call'.responses = 0
              /\ process_calls' = process_calls]_vars

\* a send to a recipient that is not registered, in an active conversation,
\* has returned none, and a broadcast into an unknown conversation has
\* returned the empty list; no agent was invoked
C27_Witness ==
    /\ send_call.pc = "returned"
    /\ send_call.ret = "none"
    /\ send_call.conversation_id \in DOMAIN _conversations
    /\ _conversations[send_call.conversation_id].status = "active"
    /\ Unregistered(send_call.recipient)
    /\ broadcast_call.pc = "returned"
    /\ broadcast_call.conversation_id = UnknownConvId
    /\ broadcast_call.responses = 0
    /\ TotalCalls = 0

\* C28: every successful send_message appends exactly one turn to the
\* conversation, so that after max_turns sends the conversation is completed
\* and further sends return none.
C28_SendAppendsTurn ==
    (send_call.pc = "returned" /\ send_call.ret = "response") =>
        Len(_conversations[send_call.conversation_id].turns) >= 1

\* the task is retrying and its retry time, which is set, has come
RetryDue(task, clock) ==
    /\ task.status = "retrying"
    /\ task.retry_state.next_retry_at # NoTime
    /\ task.retry_state.next_retry_at <= clock

\* the ids of the tasks due for retry from position i on, in queue order
RECURSIVE DueIds(_, _, _)
DueIds(tasks, clock, i) ==
    IF i > Len(tasks) THEN <<>>
    ELSE (IF RetryDue(tasks[i], clock) THEN <<tasks[i].id>> ELSE <<>>)
         \o DueIds(tasks, clock, i + 1)

\* process_retries is called in this step
ProcessRetriesCalled == ret'.op = "process_retries" /\ now' = now

\* C31: get_tasks_ready_for_retry gives exactly the tasks whose status is
\* retrying and whose next_retry_at <= now; process_retries resets exactly
\* those to pending with next_retry_at cleared, returns their ids, and leaves
\* every other task (a retrying task whose time is in the future included) and
\* every task's attempt counter unchanged.
C31_ProcessRetries ==
    [][ProcessRetriesCalled =>
          /\ ret'.ids = DueIds(_tasks, now, 1)
          /\ Len(_tasks') = Len(_tasks)
          /\ \A i \in 1..Len(_tasks) :
                /\ _tasks'[i].retry_state.attempt = _tasks[i].retry_state.attempt
                /\ IF RetryDue(_tasks[i], now)
                   THEN _tasks'[i] = [_tasks[i] EXCEPT !.status = "pending",
                                                       !.retry_state.next_retry_at = NoTime]
                   ELSE _tasks'[i] = _tasks[i]
          /\ _completed_tasks' = _completed_tasks]_vars

\* process_retries has returned A alone: A is pending again with its attempt
\* kept, B is still retrying with its retry time ahead of the clock
C31_Witness ==
    /\ ret.op = "process_retries"
    /\ ret.ids = <<"A">>
    /\ \E i, j \in 1..Len(_tasks) :
          /\ _tasks[i].id = "A" /\ _tasks[i].status = "pending"
          /\ _tasks[i].retry_state.attempt = 1
          /\ _tasks[i].retry_state.next_retry_at = NoTime
          /\ _tasks[j].id = "B" /\ _tasks[j].status = "retrying"
          /\ _tasks[j].retry_state.next_retry_at > now

\* C35: in every state reachable by the queue operations, every id of the
\* completed set belongs to a task whose status is completed, so that a task
\* once marked completed is never returned by get_next_task again.
C35_CompletedSetSound ==
    /\ \A id \in _completed_tasks :
          IndexOf(_tasks, id) # 0 /\ _tasks[IndexOf(_tasks, id)].status = "completed"
    /\ (ret.op = "get_next_task" /\ ret.ok) => ret.id \notin _completed_tasks

\* C38: after any sequence of register_agent / unregister_agent calls (a second
\* agent registered under a name in use, with other capabilities, included),
\* every name the capability index holds under c is either unregistered or the
\* name of a registered agent whose capabilities include c, so that
\* get_agents_by_capability(c) returns only agents that have c.
C38_IndexSound ==
    /\ \A c \in AgentCapability :
          \A i \in 1..Len(_capability_index[c]) :
             LET k == AgentIndexOf(orch_agents, _capability_index[c][i]) IN
             k = 0 \/ HasCapability(orch_agents[k], c)
    /\ \A c \in AgentCapability :
          \A i \in 1..Len(get_agents_by_capability(Reg, c)) :
             HasCapability(get_agents_by_capability(Reg, c)[i], c)

\* C39: for every run of CorrectionLoop.run, whatever the evaluators, findings
\* and registered correction handlers, final_output equals initial_output: no
\* correction handler is ever invoked and the output evaluated is the same in
\* every iteration.
C39_OutputUntouched ==
    /\ handler_calls = 0
    /\ run_pc = "loop" => current_output = initial_output
    /\ run_pc = "returned" =>
          ~loop_result.isNone /\ loop_result.final_output = initial_output

\* run has returned on output o2 after two corrections, a handler being
\* registered for the category of the error finding reported
C39_Witness ==
    /\ run_pc = "returned"
    /\ initial_output = "o2"
    /\ loop_result.final_output = "o2"
    /\ loop_result.total_iterations >= 2
    /\ loop_task.correction_count >= 2
    /\ _correction_handlers = {"syntax"}
    /\ Correctable(combined_result.findings, _correction_handlers, 1) # <<>>

\* run has returned on the default loop: no evaluator, three iterations at
\* most, passing score 0.8
DefaultLoopReturned ==
    /\ run_pc = "returned"
    /\ _evaluators = 0
    /\ _max_iterations = DefaultMaxIterations
    /\ _min_passing_score = DefaultMinPassingScore

\* C40: with no evaluator registered (the orchestrator's default loop) run
\* returns success=true, status completed and total_iterations=1 without
\* changing the task's status or correction_count; so process_task returns a
\* successful TaskResult for every agent response flagged needs_correction,
\* whatever its success flag, and run_task_loop marks the task completed.
C40_DefaultLoopAccepts ==
    [][/\ DefaultLoopReturned' =>
             /\ loop_result'.success /\ loop_result'.status = "completed"
             /\ loop_result'.total_iterations = 1
             /\ loop_task' = loop_task
             /\ loop_result'.success = default_loop_success
       /\ \A loop \in Loops, response \in Responses :
             (/\ enable_correction_loops
              /\ response.needs_correction
              /\ LoopHandleReturn(loop, response)) =>
                LET i == IndexOf(_tasks, procs[loop].task) IN
                /\ process_result(response).success
                /\ _tasks'[i].result = process_result(response)
                /\ _tasks'[i].status = "completed"
                /\ _tasks'[i].id \in _completed_tasks']_vars

\* the default loop has returned, and a task a loop had dispatched is completed
\* with a successful result
C40_Witness ==
    /\ DefaultLoopReturned
    /\ loop_result.success
    /\ loop_task.status = "in_progress" /\ loop_task.correction_count = 0
    /\ enable_correction_loops
    /\ \E i \in 1..Len(_tasks) :
          /\ _tasks[i].status = "completed"
          /\ ~_tasks[i].result.isNone /\ _tasks[i].result.success
          /\ \E e \in handle_log : e[3] = _tasks[i].id

\* C33: Workflow.from_dict(w.to_dict()) has the id, name, version and
\* variables of w and the steps of w in the same order, each with equal id,
\* name, step_type, config, dependencies, timeout and metadata.
C33_RoundTrip ==
    ~restored.isNone =>
       /\ restored.id = workflow.id
       /\ restored.name = workflow.name
       /\ restored.version = workflow.version
       /\ restored.variables = workflow.variables
       /\ Len(restored.steps) = Len(workflow.steps)
       /\ \A i \in 1..Len(workflow.steps) :
             /\ restored.steps[i].id = workflow.steps[i].id
             /\ restored.steps[i].name = workflow.steps[i].name
             /\ restored.steps[i].step_type = workflow.steps[i].step_type
             /\ restored.steps[i].config = workflow.steps[i].config
             /\ restored.steps[i].dependencies = workflow.steps[i].dependencies
             /\ restored.steps[i].timeout_seconds = workflow.steps[i].timeout_seconds
             /\ restored.steps[i].metadata = workflow.steps[i].metadata

\* the value a key stands for: the one provided, else the default, else none
Defines(d, key) == \E i \in 1..Len(d) : d[i][1] = key
ValueIn(d, key) == d[CHOOSE i \in 1..Len(d) : d[i][1] = key][2]
Stands(key, defaults, provided) == Defines(provided, key) \/ Defines(defaults, key)
ValueOf(key, defaults, provided) ==
    IF Defines(provided, key) THEN ValueIn(provided, key) ELSE ValueIn(defaults, key)

\* the template with every placeholder of a key that stands for a value
\* replaced by that value, from the i-th piece on
RECURSIVE Filled(_, _, _, _)
Filled(string, defaults, provided, i) ==
    IF i > Len(string) THEN <<>>
    ELSE (IF \E key \in VarKeys : string[i] = Placeholder(key)
                                  /\ Stands(key, defaults, provided)
          THEN ValueOf(CHOOSE key \in VarKeys : string[i] = Placeholder(key),
                       defaults, provided)
          ELSE <<string[i]>>)
         \o Filled(string, defaults, provided, i + 1)

\* C34: create_task(title, vars) yields a task whose description is the
\* description template with every ${k} replaced by vars[k] for each key of
\* vars (provided values win over defaults, defaults fill the remaining
\* placeholders), and whose metadata holds template_name and
\* template_variables, the merged map.
C34_Substitution ==
    ~created.isNone =>
       /\ created.title = create_args.title
       /\ created.description =
             Filled(template.description_template, template.variables,
                    create_args.variables, 1)
       /\ created.metadata["template_name"] = template.name
       /\ \A key \in VarKeys :
             LET merged == created.metadata["template_variables"] IN
             /\ Defines(merged, key) <=> Stands(key, template.variables, create_args.variables)
             /\ Defines(merged, key) =>
                   ValueIn(merged, key) = ValueOf(key, template.variables,
                                                  create_args.variables)

\* the positions of the pending steps whose dependencies are all in the set
ReadyPositions(ss, completed) ==
    { i \in 1..Len(ss) : ss[i].status = "pending" /\ ss[i].dependencies \subseteq completed }

\* C32: get_ready_steps(completed_ids) returns, in workflow step order, exactly
\* the steps whose status is pending and whose dependency ids are all in
\* completed_ids; running, completed and failed steps are never returned.
C32_ReadySteps ==
    [][(pc = "loop" /\ pc' # "loop") =>
          /\ \A k \in 1..Len(ready_steps') :
                /\ ready_steps'[k] \in ReadyPositions(steps, completed_steps)
                /\ k > 1 => ready_steps'[k - 1] < ready_steps'[k]
                /\ steps[ready_steps'[k]].status \notin {"running", "completed", "failed"}
          /\ \A i \in ReadyPositions(steps, completed_steps) :
                \E k \in 1..Len(ready_steps') : ready_steps'[k] = i]_vars

\* two steps were returned in step order while one step is completed, one
\* has failed and one is pending with a dependency not completed
C32_Witness ==
    /\ pc = "gather"
    /\ Len(ready_steps) = 2
    /\ \E i \in 1..Len(steps) : steps[i].status = "completed"
    /\ \E i \in 1..Len(steps) : steps[i].status = "failed"
    /\ \E i \in 1..Len(steps) :
          /\ steps[i].status = "pending"
          /\ \A k \in 1..Len(ready_steps) : ready_steps[k] # i

\* the gathered results are processed in this step
ResultsProcessed == pc = "gather" /\ pc' = "loop"

\* C36: in execute a step is marked failed if and only if its dispatch raised
\* an exception: a step whose result mapping carries success=false is marked
\* completed, is added to the completed set, releases its dependents, and does
\* not make the workflow result unsuccessful.
C36_FailedIffRaised ==
    [][/\ \A i \in 1..Len(steps) :
             (steps[i].status # "failed" /\ steps'[i].status = "failed") =>
                 ResultsProcessed /\ ResultOf(i) = "raised"
       /\ ResultsProcessed =>
             \A k \in 1..Len(coros) :
                LET i == ready_steps[k] IN
                /\ coros[k] = "raised" => steps'[i].status = "failed"
                /\ coros[k] = "nok" =>
                      /\ steps'[i].status = "completed"
                      /\ steps[i].id \in completed_steps'
                      /\ \A j \in 1..Len(steps) :
                            (/\ steps[i].id \in steps[j].dependencies
                             /\ steps'[j].status = "pending"
                             /\ steps[j].dependencies \subseteq completed_steps')
                            => j \in ReadyPositions(steps', completed_steps')
       /\ (pc' = "done" /\ \A i \in 1..Len(steps) : steps'[i].status # "failed")
             => _workflow_results'.success]_vars

\* execute has returned success with a step completed on a success=false
\* mapping and a dependent of that step completed after it
C36_Witness ==
    /\ pc = "done"
    /\ _workflow_results.success
    /\ \E i, j \in 1..Len(steps) :
          /\ steps[i].status = "completed" /\ steps[i].result = "nok"
          /\ steps[i].id \in steps[j].dependencies
          /\ steps[j].status = "completed"

\* C37: for every workflow, every value of max_parallel_steps and handlers
\* that return or raise, execute terminates: every round of its loop launches
\* at least one ready step.
C37_ExecuteTerminates ==
    /\ [][(pc = "loop" /\ pc' = "gather") => Len(coros') >= 1]_vars
    /\ (pc = "loop") ~> (pc = "done")

====
